---- MODULE Spec2Model ----
(***************************************************************************)
(* A model of the chess rules code of ChessEngineGo.                       *)
(*                                                                         *)
(* arbiter/chess.go is the rules authority used by PlayGame: the FEN codec *)
(* (CreateGameArbiter, GameArbiterToFEN), the validator (IsValidMove), the *)
(* generator (GenerateValidMoves), the applier (DoMove) and the check,     *)
(* checkmate and stalemate queries.  engine1/engine.go carries a private   *)
(* copy of the validator and generator that differs in isValidKingMove and *)
(* IsCheck (an attack oracle, isSquareAttacked); those are modelled with   *)
(* the prefix E1_.                                                         *)
(*                                                                         *)
(* A uint64 bitboard is modelled as the set of the indices of its set bits *)
(* (a subset of 0..63): x | y is \cup, x & y is \cap, x &^ y is \, and     *)
(* x == 0 is x = {}.  A Go string is a sequence of one-character strings.  *)
(* A [3]uint64 move is a triple <<from bitboard, to bitboard, promotion>>. *)
(***************************************************************************)
EXTENDS Integers, Sequences, FiniteSets, TLC

\* ------------------------------------------------------------------------
\* Piece indices in the Board array (chess.go:26-39)
WhiteKing == 0
WhiteQueen == 1
WhiteRook == 2
WhiteBishop == 3
WhiteKnight == 4
WhitePawn == 5
BlackKing == 6
BlackQueen == 7
BlackRook == 8
BlackBishop == 9
BlackKnight == 10
BlackPawn == 11

Squares == 0..63

\* uint64(1) << pos: a single bit for 0 <= pos < 64, 0 for pos >= 64.
Bit(pos) == IF pos \in Squares THEN {pos} ELSE {}

findSetBit(bitmap) ==
    IF bitmap = {} THEN -1
    ELSE CHOOSE i \in bitmap : \A j \in bitmap : i <= j

countSetBits(bitmap) == Cardinality(bitmap)

abs(x) == IF x < 0 THEN -x ELSE x

sign(x) == IF x < 0 THEN -1 ELSE IF x > 0 THEN 1 ELSE 0

min(a, b) == IF a < b THEN a ELSE b

max(a, b) == IF a > b THEN a ELSE b

\* castle & 1 and castle & 2 on the 0..3 castling fields
KingsideBit(castle) == castle % 2

QueensideBit(castle) == (castle \div 2) % 2

\* The first bitboard (in index order lo..hi) holding position, or -1.
FirstBoardWith(a, lo, hi, bitMask) ==
    LET hit == {pieceType \in lo..hi : a.Board[pieceType] \cap bitMask # {}}
    IN  IF hit = {} THEN -1 ELSE CHOOSE p \in hit : \A q \in hit : p <= q

\* Returns <<piece, color>>, <<-1, -1>> for an empty square.
getPieceAtPosition(a, position) ==
    LET bitMask == Bit(position)
        w == FirstBoardWith(a, WhiteKing, WhitePawn, bitMask)
        b == FirstBoardWith(a, BlackKing, BlackPawn, bitMask)
    IN  IF w # -1 THEN <<w, 0>>
        ELSE IF b # -1 THEN <<b, 1>>
        ELSE <<-1, -1>>

PieceAt(a, position) == getPieceAtPosition(a, position)[1]

\* ------------------------------------------------------------------------
\* The validator

isValidPromotion(promotionPiece) ==
    promotionPiece \in {WhiteQueen, WhiteRook, WhiteBishop, WhiteKnight,
                        BlackQueen, BlackRook, BlackBishop, BlackKnight}

\* isValidPawnMove with its single push only: no double push, no capture.
isValidPawnMove_pushes(a, move) ==
    LET fromPos == findSetBit(move[1])
        toPos == findSetBit(move[2])
        color == getPieceAtPosition(a, fromPos)[2]
    IN  /\ toPos = fromPos + (IF color = 0 THEN 8 ELSE -8)
        /\ PieceAt(a, toPos) = -1

isValidPawnMove(a, move) ==
    LET fromPos == findSetBit(move[1])
        toPos == findSetBit(move[2])
        promotionPiece == move[3]
        color == getPieceAtPosition(a, fromPos)[2]
        fromRank == fromPos \div 8
        fromFile == fromPos % 8
        toRank == toPos \div 8
        toFile == toPos % 8
        fileDiff == abs(toFile - fromFile)
        rankDiff == toRank - fromRank
        dest == getPieceAtPosition(a, toPos)
    IN  IF color = 0
        THEN IF rankDiff = 1 /\ fileDiff = 0
             THEN IF dest[1] # -1 THEN FALSE
                  ELSE IF toRank = 7 THEN isValidPromotion(promotionPiece)
                  ELSE TRUE
             ELSE IF rankDiff = 2 /\ fileDiff = 0 /\ fromRank = 1
             THEN PieceAt(a, (fromRank + 1) * 8 + fromFile) = -1 /\ dest[1] = -1
             ELSE IF rankDiff = 1 /\ fileDiff = 1
             THEN IF dest[1] # -1 /\ dest[2] = 1
                  THEN IF toRank = 7 THEN isValidPromotion(promotionPiece)
                       ELSE TRUE
                  ELSE dest[1] = -1 /\ move[2] = a.EnPassantBlack
                       /\ a.Board[BlackPawn] \cap Bit(toPos - 8) # {}
             ELSE FALSE
        ELSE IF rankDiff = -1 /\ fileDiff = 0
             THEN IF dest[1] # -1 THEN FALSE
                  ELSE IF toRank = 0 THEN isValidPromotion(promotionPiece)
                  ELSE TRUE
             ELSE IF rankDiff = -2 /\ fileDiff = 0 /\ fromRank = 6
             THEN PieceAt(a, (fromRank - 1) * 8 + fromFile) = -1 /\ dest[1] = -1
             ELSE IF rankDiff = -1 /\ fileDiff = 1
             THEN IF dest[1] # -1 /\ dest[2] = 0
                  THEN IF toRank = 0 THEN isValidPromotion(promotionPiece)
                       ELSE TRUE
                  ELSE dest[1] = -1 /\ move[2] = a.EnPassantWhite
                       /\ a.Board[WhitePawn] \cap Bit(toPos + 8) # {}
             ELSE FALSE

\* The castling branch shared by both validators: the rights flag, the
\* empty squares between king and rook, and the rook on its home square.
\* between: the squares that must be empty; rookPos: the rook's home.
CastlePathAndRook(a, flagSet, between, rookPos, rook, color) ==
    /\ flagSet
    /\ \A sq \in between : PieceAt(a, sq) = -1
    /\ getPieceAtPosition(a, rookPos) = <<rook, color>>

\* arbiter/chess.go: no attack test anywhere (the places are comments only).
isValidKingMove(a, move) ==
    LET fromPos == findSetBit(move[1])
        toPos == findSetBit(move[2])
        fromRank == fromPos \div 8
        fromFile == fromPos % 8
        toRank == toPos \div 8
        toFile == toPos % 8
        rankDiff == abs(toRank - fromRank)
        fileDiff == abs(toFile - fromFile)
        turnOfPlayer == a.TurnOfPlayer
    IN  IF rankDiff <= 1 /\ fileDiff <= 1 THEN TRUE
        ELSE IF rankDiff = 0 /\ fileDiff = 2
        THEN IF turnOfPlayer = 0 /\ fromRank = 0 /\ fromFile = 4 /\ toFile = 6
             THEN CastlePathAndRook(a, KingsideBit(a.WhiteCastle) # 0, {5, 6}, 7, WhiteRook, 0)
             ELSE IF turnOfPlayer = 0 /\ fromRank = 0 /\ fromFile = 4 /\ toFile = 2
             THEN CastlePathAndRook(a, QueensideBit(a.WhiteCastle) # 0, {1, 2, 3}, 0, WhiteRook, 0)
             ELSE IF turnOfPlayer = 1 /\ fromRank = 7 /\ fromFile = 4 /\ toFile = 6
             THEN CastlePathAndRook(a, KingsideBit(a.BlackCastle) # 0, {61, 62}, 63, BlackRook, 1)
             ELSE IF turnOfPlayer = 1 /\ fromRank = 7 /\ fromFile = 4 /\ toFile = 2
             THEN CastlePathAndRook(a, QueensideBit(a.BlackCastle) # 0, {57, 58, 59}, 56, BlackRook, 1)
             ELSE FALSE
        ELSE FALSE

\* isValidBishopMove without its walk along the diagonal.
isValidBishopMove_leaping(a, move) ==
    LET fromPos == findSetBit(move[1])
        toPos == findSetBit(move[2])
    IN  abs((toPos \div 8) - (fromPos \div 8)) = abs((toPos % 8) - (fromPos % 8))

isValidBishopMove(a, move) ==
    LET fromPos == findSetBit(move[1])
        toPos == findSetBit(move[2])
        fromRank == fromPos \div 8
        fromFile == fromPos % 8
        toRank == toPos \div 8
        toFile == toPos % 8
        rankDiff == abs(toRank - fromRank)
        fileDiff == abs(toFile - fromFile)
        rankDir == sign(toRank - fromRank)
        fileDir == sign(toFile - fromFile)
    IN  IF rankDiff # fileDiff THEN FALSE
        ELSE \A i \in 1..(rankDiff - 1) :
                PieceAt(a, (fromRank + i * rankDir) * 8 + (fromFile + i * fileDir)) = -1

isValidRookMove(a, move) ==
    LET fromPos == findSetBit(move[1])
        toPos == findSetBit(move[2])
        fromRank == fromPos \div 8
        fromFile == fromPos % 8
        toRank == toPos \div 8
        toFile == toPos % 8
    IN  IF fromRank # toRank /\ fromFile # toFile THEN FALSE
        ELSE IF fromRank = toRank
        THEN \A file \in (min(fromFile, toFile) + 1)..(max(fromFile, toFile) - 1) :
                PieceAt(a, fromRank * 8 + file) = -1
        ELSE \A rank \in (min(fromRank, toRank) + 1)..(max(fromRank, toRank) - 1) :
                PieceAt(a, rank * 8 + fromFile) = -1

isValidKnightMove(a, move) ==
    LET fromPos == findSetBit(move[1])
        toPos == findSetBit(move[2])
        rankDiff == abs((toPos \div 8) - (fromPos \div 8))
        fileDiff == abs((toPos % 8) - (fromPos % 8))
    IN  (rankDiff = 2 /\ fileDiff = 1) \/ (rankDiff = 1 /\ fileDiff = 2)

\* IsValidMove up to the dispatch on the piece type: the three pre-checks.
\* Returns the piece on from, or -1 when a pre-check rejects the move.
\* PreChecked without the test of the piece on to.
PreChecked_ownCaptured(a, move) ==
    LET from == getPieceAtPosition(a, findSetBit(move[1]))
    IN  IF countSetBits(move[1]) # 1 \/ countSetBits(move[2]) # 1 THEN -1
        ELSE IF from[1] = -1 \/ from[2] # a.TurnOfPlayer THEN -1
        ELSE from[1]

PreChecked(a, move) ==
    LET turnOfPlayer == a.TurnOfPlayer
        from == getPieceAtPosition(a, findSetBit(move[1]))
        to == getPieceAtPosition(a, findSetBit(move[2]))
    IN  IF countSetBits(move[1]) # 1 \/ countSetBits(move[2]) # 1 THEN -1
        ELSE IF from[1] = -1 \/ from[2] # turnOfPlayer THEN -1
        ELSE IF to[1] # -1 /\ to[2] = turnOfPlayer THEN -1
        ELSE from[1]

IsValidMove(a, move) ==
    LET fromPiece == PreChecked(a, move)
    IN  CASE fromPiece \in {WhitePawn, BlackPawn} -> isValidPawnMove(a, move)
          [] fromPiece \in {WhiteKing, BlackKing} -> isValidKingMove(a, move)
          [] fromPiece \in {WhiteBishop, BlackBishop} -> isValidBishopMove(a, move)
          [] fromPiece \in {WhiteRook, BlackRook} -> isValidRookMove(a, move)
          [] fromPiece \in {WhiteQueen, BlackQueen} ->
                isValidBishopMove(a, move) \/ isValidRookMove(a, move)
          [] fromPiece \in {WhiteKnight, BlackKnight} -> isValidKnightMove(a, move)
          [] OTHER -> FALSE

\* ------------------------------------------------------------------------
\* The applier

\* clearCapturedPiece without its loop: the piece standing on the destination
\* stays in its bitboard.
clearCapturedPiece_skipped(a, positionBitboard) == a

clearCapturedPiece(a, positionBitboard) ==
    [a EXCEPT !.Board = [pieceType \in 0..11 |-> a.Board[pieceType] \ positionBitboard]]

\* board[pieceType] &^= fromBitboard; board[pieceType] |= toBitboard
MoveBit(a, pieceType, fromBitboard, toBitboard) ==
    [a EXCEPT !.Board[pieceType] = (a.Board[pieceType] \ fromBitboard) \cup toBitboard]

doSimpleMove(a, fromBitboard, toBitboard, pieceType) ==
    MoveBit(clearCapturedPiece(a, toBitboard), pieceType, fromBitboard, toBitboard)

\* doPawnMove, first part: the en-passant capture (chess.go:976-997).
\* The en passant branch of doPawnMove left out: no pawn is removed.
EnPassantCapture_none(a, toBitboard, pieceColor) == a

EnPassantCapture(a, toBitboard, pieceColor) ==
    LET toPos == findSetBit(toBitboard)
    IN  IF pieceColor = 0 /\ toBitboard = a.EnPassantBlack
        THEN [a EXCEPT !.Board[BlackPawn] = @ \ Bit(toPos - 8)]
        ELSE IF pieceColor = 1 /\ toBitboard = a.EnPassantWhite
        THEN [a EXCEPT !.Board[WhitePawn] = @ \ Bit(toPos + 8)]
        ELSE a

\* doPawnMove, last part: both targets cleared, one set again after a
\* double push (chess.go:1019-1036).
SetEnPassant(a, fromPos, toPos, pieceColor) ==
    LET fromRank == fromPos \div 8
        fromFile == fromPos % 8
        toRank == toPos \div 8
    IN  IF pieceColor = 0 /\ fromRank = 1 /\ toRank = 3
        THEN [a EXCEPT !.EnPassantWhite = {},
                       !.EnPassantBlack = Bit((fromRank + 1) * 8 + fromFile)]
        ELSE IF pieceColor = 1 /\ fromRank = 6 /\ toRank = 4
        THEN [a EXCEPT !.EnPassantWhite = Bit((fromRank - 1) * 8 + fromFile),
                       !.EnPassantBlack = {}]
        ELSE [a EXCEPT !.EnPassantWhite = {}, !.EnPassantBlack = {}]

doPawnMove(a, fromBitboard, toBitboard, pieceType, pieceColor, promotionPiece) ==
    LET fromPos == findSetBit(fromBitboard)
        toPos == findSetBit(toBitboard)
        a1 == EnPassantCapture(a, toBitboard, pieceColor)
        a2 == clearCapturedPiece(a1, toBitboard)
        a3 == IF promotionPiece # 0
              THEN [a2 EXCEPT !.Board[pieceType] = @ \ fromBitboard,
                              !.Board[promotionPiece] = @ \cup toBitboard]
              ELSE MoveBit(a2, pieceType, fromBitboard, toBitboard)
    IN  SetEnPassant(a3, fromPos, toPos, pieceColor)

\* doKingMove, the rook relocation of a two-file king move (chess.go:1049-1115).
\* doKingMove without the castling branch: the rook stays.
CastleRook_stays(a, fromFile, toFile, pieceColor) == a

CastleRook(a, fromFile, toFile, pieceColor) ==
    IF abs(toFile - fromFile) # 2 THEN a
    ELSE IF pieceColor = 0
    THEN IF toFile > fromFile
         THEN MoveBit([a EXCEPT !.WhiteCastle = 0], WhiteRook, Bit(7), Bit(5))
         ELSE MoveBit([a EXCEPT !.WhiteCastle = 0], WhiteRook, Bit(0), Bit(3))
    ELSE IF toFile > fromFile
         THEN MoveBit([a EXCEPT !.BlackCastle = 0], BlackRook, Bit(63), Bit(61))
         ELSE MoveBit([a EXCEPT !.BlackCastle = 0], BlackRook, Bit(56), Bit(59))

\* doKingMove without the update of the castling rights after an ordinary
\* king move.
doKingMove_rightsKept(a, fromBitboard, toBitboard, pieceType, pieceColor) ==
    MoveBit(clearCapturedPiece(CastleRook(a, findSetBit(fromBitboard) % 8,
                                          findSetBit(toBitboard) % 8, pieceColor),
                               toBitboard),
            pieceType, fromBitboard, toBitboard)

doKingMove(a, fromBitboard, toBitboard, pieceType, pieceColor) ==
    LET fromFile == findSetBit(fromBitboard) % 8
        toFile == findSetBit(toBitboard) % 8
        a1 == CastleRook(a, fromFile, toFile, pieceColor)
        a2 == IF pieceColor = 0 THEN [a1 EXCEPT !.WhiteCastle = 0]
                                ELSE [a1 EXCEPT !.BlackCastle = 0]
    IN  MoveBit(clearCapturedPiece(a2, toBitboard), pieceType, fromBitboard, toBitboard)

\* DoMove executes a move on the board without checking validity.  It does
\* not change TurnOfPlayer: the caller switches turns (chess.go:1906).
DoMove(a, move) ==
    LET fromBitboard == move[1]
        toBitboard == move[2]
        promotionPiece == move[3]
        from == getPieceAtPosition(a, findSetBit(fromBitboard))
        fromPiece == from[1]
        fromColor == from[2]
    IN  CASE fromPiece \in {WhitePawn, BlackPawn} ->
                doPawnMove(a, fromBitboard, toBitboard, fromPiece, fromColor, promotionPiece)
          [] fromPiece \in {WhiteKing, BlackKing} ->
                doKingMove(a, fromBitboard, toBitboard, fromPiece, fromColor)
          [] fromPiece \in {WhiteQueen, BlackQueen, WhiteRook, BlackRook,
                            WhiteBishop, BlackBishop, WhiteKnight, BlackKnight} ->
                doSimpleMove(a, fromBitboard, toBitboard, fromPiece)
          [] OTHER -> a

\* Switch turns (PlayGame, chess.go:1906).
SwitchTurns(a) == [a EXCEPT !.TurnOfPlayer = 1 - a.TurnOfPlayer]

\* ------------------------------------------------------------------------
\* engine1/engine.go: the attack oracle, IsCheck and isValidKingMove of the
\* engine's private copy of the rules.

\* One ray of the sliding-piece loops of isSquareAttacked: from pos, up to
\* steps more steps in direction dir; TRUE when the first piece met is one of
\* attackers.  diagonal selects the boundary test of the second loop.
RECURSIVE RayAttacked(_, _, _, _, _, _)
RayAttacked(a, pos, dir, steps, attackers, diagonal) ==
    LET next == pos + dir
        rankDiff == abs((next \div 8) - (pos \div 8))
        fileDiff == abs((next % 8) - (pos % 8))
        crossed == IF diagonal THEN rankDiff # fileDiff \/ rankDiff # 1
                   ELSE dir \in {-1, 1} /\ (next \div 8) # (pos \div 8)
        p == FirstBoardWith(a, 0, 11, Bit(next))
    IN  IF steps = 0 THEN FALSE
        ELSE IF next < 0 \/ next >= 64 THEN FALSE
        ELSE IF crossed THEN FALSE
        ELSE IF p # -1 THEN p \in attackers
        ELSE RayAttacked(a, next, dir, steps - 1, attackers, diagonal)

\* PawnAttacked without its tests of the a-file and the h-file.
PawnAttacked_wrapping(a, square, attackerColor) ==
    IF attackerColor = 0
    THEN /\ square > 7
         /\ a.Board[WhitePawn] \cap (Bit(square - 9) \cup Bit(square - 7)) # {}
    ELSE /\ square < 56
         /\ a.Board[BlackPawn] \cap (Bit(square + 7) \cup Bit(square + 9)) # {}

\* The pawn part of isSquareAttacked (engine.go:1696-1749).
PawnAttacked(a, square, attackerColor) ==
    IF attackerColor = 0
    THEN /\ square > 7
         /\ \/ square % 8 > 0 /\ square - 9 >= 0
               /\ a.Board[WhitePawn] \cap Bit(square - 9) # {}
            \/ square % 8 < 7 /\ square - 7 >= 0
               /\ a.Board[WhitePawn] \cap Bit(square - 7) # {}
    ELSE /\ square < 56
         /\ \/ square % 8 > 0 /\ square + 7 < 64
               /\ a.Board[BlackPawn] \cap Bit(square + 7) # {}
            \/ square % 8 < 7 /\ square + 9 < 64
               /\ a.Board[BlackPawn] \cap Bit(square + 9) # {}

\* The knight and king parts: an offset counts when it stays on the board
\* and the rank and file distances are those of the piece's step, a
\* knight's when knight is TRUE and a king's otherwise.
OffsetAttacked(a, square, offsets, piece, knight) ==
    \E offset \in offsets :
        LET attackPos == square + offset
            rankDiff == abs((attackPos \div 8) - (square \div 8))
            fileDiff == abs((attackPos % 8) - (square % 8))
        IN  /\ attackPos >= 0 /\ attackPos < 64
            /\ IF knight
               THEN (rankDiff = 2 /\ fileDiff = 1) \/ (rankDiff = 1 /\ fileDiff = 2)
               ELSE rankDiff <= 1 /\ fileDiff <= 1
            /\ a.Board[piece] \cap Bit(attackPos) # {}

\* The pawn, knight and king parts of isSquareAttacked (engine.go:1696-1807).
StepAttacked(a, square, attackerColor) ==
    LET knightPiece == IF attackerColor = 1 THEN BlackKnight ELSE WhiteKnight
        kingPiece == IF attackerColor = 1 THEN BlackKing ELSE WhiteKing
    IN  \/ PawnAttacked(a, square, attackerColor)
        \/ OffsetAttacked(a, square, {-17, -15, -10, -6, 6, 10, 15, 17}, knightPiece, TRUE)
        \/ OffsetAttacked(a, square, {-9, -8, -7, -1, 1, 7, 8, 9}, kingPiece, FALSE)

\* SlidingAttacked without its diagonal loop.
SlidingAttacked_straight(a, square, attackerColor) ==
    LET queenPiece == IF attackerColor = 1 THEN BlackQueen ELSE WhiteQueen
        rookPiece == IF attackerColor = 1 THEN BlackRook ELSE WhiteRook
    IN  \E dir \in {-8, -1, 1, 8} :
            RayAttacked(a, square, dir, 7, {rookPiece, queenPiece}, FALSE)

\* The sliding-piece part of isSquareAttacked (engine.go:1809-1898): the
\* four straight rays, then the four diagonal rays.
SlidingAttacked(a, square, attackerColor) ==
    LET queenPiece == IF attackerColor = 1 THEN BlackQueen ELSE WhiteQueen
        rookPiece == IF attackerColor = 1 THEN BlackRook ELSE WhiteRook
        bishopPiece == IF attackerColor = 1 THEN BlackBishop ELSE WhiteBishop
    IN  \/ \E dir \in {-8, -1, 1, 8} :
              RayAttacked(a, square, dir, 7, {rookPiece, queenPiece}, FALSE)
        \/ \E dir \in {-9, -7, 7, 9} :
              RayAttacked(a, square, dir, 7, {bishopPiece, queenPiece}, TRUE)

isSquareAttacked(a, square, attackerColor) ==
    StepAttacked(a, square, attackerColor) \/ SlidingAttacked(a, square, attackerColor)

\* engine1's IsCheck: the king of the side to move, attacked by the other
\* side.  TurnOfPlayer is switched and restored around the oracle, which
\* does not read it.
E1_IsCheck(a) ==
    LET currentPlayerColor == a.TurnOfPlayer
        kingPiece == IF currentPlayerColor = 1 THEN BlackKing ELSE WhiteKing
        kingBitboard == a.Board[kingPiece]
    IN  IF kingBitboard = {} THEN FALSE
        ELSE isSquareAttacked([a EXCEPT !.TurnOfPlayer = 1 - currentPlayerColor],
                              findSetBit(kingBitboard), 1 - currentPlayerColor)

\* The bufferArbiter of isValidKingMove: a copy with the king taken off
\* move[0] and put on kingTo, and TurnOfPlayer set to turn.
BufferArbiter(a, kingPiece, fromBitboard, kingTo, turn) ==
    [a EXCEPT !.Board[kingPiece] = (@ \ fromBitboard) \cup kingTo,
              !.TurnOfPlayer = turn]

\* One castling branch of engine1's isValidKingMove: the flag, the empty
\* squares, IsCheck on the buffer with the king on the transit square and on
\* the destination, and the rook.
E1_Castle(a, move, flagSet, between, transit, dest, rookPos, rook, color, kingPiece) ==
    /\ flagSet
    /\ \A sq \in between : PieceAt(a, sq) = -1
    /\ ~E1_IsCheck(BufferArbiter(a, kingPiece, move[1], Bit(transit), 1 - color))
    /\ ~E1_IsCheck(BufferArbiter(a, kingPiece, move[1], Bit(dest), 1 - color))
    /\ getPieceAtPosition(a, rookPos) = <<rook, color>>

E1_isValidKingMove(a, move) ==
    LET fromPos == findSetBit(move[1])
        toPos == findSetBit(move[2])
        fromRank == fromPos \div 8
        fromFile == fromPos % 8
        toRank == toPos \div 8
        toFile == toPos % 8
        rankDiff == abs(toRank - fromRank)
        fileDiff == abs(toFile - fromFile)
        king == getPieceAtPosition(a, fromPos)
        kingPiece == king[1]
        kingColor == king[2]
        turnOfPlayer == a.TurnOfPlayer
    IN  IF rankDiff <= 1 /\ fileDiff <= 1
        THEN ~E1_IsCheck(BufferArbiter(a, kingPiece, move[1], move[2], 1 - kingColor))
        ELSE IF rankDiff = 0 /\ fileDiff = 2
        THEN IF turnOfPlayer = 0 /\ fromRank = 0 /\ fromFile = 4
             THEN IF E1_IsCheck(a) THEN FALSE
                  ELSE IF toFile = 6
                  THEN E1_Castle(a, move, KingsideBit(a.WhiteCastle) # 0, {5, 6}, 5, 6,
                                 7, WhiteRook, 0, WhiteKing)
                  ELSE IF toFile = 2
                  THEN E1_Castle(a, move, QueensideBit(a.WhiteCastle) # 0, {1, 2, 3}, 3, 2,
                                 0, WhiteRook, 0, WhiteKing)
                  ELSE FALSE
             ELSE IF turnOfPlayer = 1 /\ fromRank = 7 /\ fromFile = 4
             THEN IF E1_IsCheck(a) THEN FALSE
                  ELSE IF toFile = 6
                  THEN E1_Castle(a, move, KingsideBit(a.BlackCastle) # 0, {61, 62}, 61, 62,
                                 63, BlackRook, 1, BlackKing)
                  ELSE IF toFile = 2
                  THEN E1_Castle(a, move, QueensideBit(a.BlackCastle) # 0, {57, 58, 59}, 59, 58,
                                 56, BlackRook, 1, BlackKing)
                  ELSE FALSE
             ELSE FALSE
        ELSE FALSE

E1_IsValidMove(a, move) ==
    LET fromPiece == PreChecked(a, move)
    IN  CASE fromPiece \in {WhitePawn, BlackPawn} -> isValidPawnMove(a, move)
          [] fromPiece \in {WhiteKing, BlackKing} -> E1_isValidKingMove(a, move)
          [] fromPiece \in {WhiteBishop, BlackBishop} -> isValidBishopMove(a, move)
          [] fromPiece \in {WhiteRook, BlackRook} -> isValidRookMove(a, move)
          [] fromPiece \in {WhiteQueen, BlackQueen} ->
                isValidBishopMove(a, move) \/ isValidRookMove(a, move)
          [] fromPiece \in {WhiteKnight, BlackKnight} -> isValidKnightMove(a, move)
          [] OTHER -> FALSE

\* ------------------------------------------------------------------------
\* The generator.  Each generate... function walks its candidates in a fixed
\* order and appends those the validator accepts; the result is a sequence.
\* The two packages hold the same generator text, each calling its own
\* IsValidMove: v names the package, "arbiter" or "engine1".

Valid(v, a, move) ==
    IF v = "engine1" THEN E1_IsValidMove(a, move) ELSE IsValidMove(a, move)

\* The set bits of a bitboard in the order findSetBit visits them.
RECURSIVE BitsAscending(_)
BitsAscending(bitmap) ==
    IF bitmap = {} THEN <<>>
    ELSE LET pos == findSetBit(bitmap)
         IN  <<pos>> \o BitsAscending(bitmap \ {pos})

RECURSIVE Flatten(_)
Flatten(seqs) == IF seqs = <<>> THEN <<>> ELSE Head(seqs) \o Flatten(Tail(seqs))

\* for each piece (in findSetBit order): its candidates, in loop order;
\* candidates[i] are the candidates of the i-th piece
ForEachPiece(candidates) == Flatten(candidates)

OnBoard(rank, file) == rank >= 0 /\ rank < 8 /\ file >= 0 /\ file < 8

\* <<from, to, 0>> for each <<rank, file>> of targets that is on the board
MovesTo(pieceBit, targets) ==
    LET on == SelectSeq(targets, LAMBDA t : OnBoard(t[1], t[2]))
    IN  [i \in 1..Len(on) |-> <<pieceBit, Bit(on[i][1] * 8 + on[i][2]), 0>>]

KingDirections ==
    << <<-1, -1>>, <<-1, 0>>, <<-1, 1>>, <<0, -1>>, <<0, 1>>, <<1, -1>>, <<1, 0>>, <<1, 1>> >>

KnightOffsets ==
    << <<-2, -1>>, <<-2, 1>>, <<-1, -2>>, <<-1, 2>>, <<1, -2>>, <<1, 2>>, <<2, -1>>, <<2, 1>> >>

\* The 14 values -7..7 without 0, in loop order.
DiagonalOffsets == <<-7, -6, -5, -4, -3, -2, -1, 1, 2, 3, 4, 5, 6, 7>>

\* newFile (or newRank) from 0 to 7, skipping the piece's own
LineIndices(own) == SelectSeq(<<0, 1, 2, 3, 4, 5, 6, 7>>, LAMBDA i : i # own)

HorizontalVertical(pos) ==
    LET rank == pos \div 8
        file == pos % 8
        files == LineIndices(file)
        ranks == LineIndices(rank)
    IN  MovesTo(Bit(pos), [i \in 1..7 |-> <<rank, files[i]>>])
        \o MovesTo(Bit(pos), [i \in 1..7 |-> <<ranks[i], file>>])

Diagonals(pos) ==
    LET rank == pos \div 8
        file == pos % 8
    IN  MovesTo(Bit(pos), [i \in 1..14 |-> <<rank + DiagonalOffsets[i], file + DiagonalOffsets[i]>>])
        \o MovesTo(Bit(pos), [i \in 1..14 |-> <<rank + DiagonalOffsets[i], file - DiagonalOffsets[i]>>])

\* KingCandidates without the two castling candidates.
KingCandidates_steps(a, playerColor, kingPos) ==
    LET rank == kingPos \div 8
        file == kingPos % 8
    IN  MovesTo(Bit(kingPos), [i \in 1..8 |-> <<rank + KingDirections[i][1], file + KingDirections[i][2]>>])

KingCandidates(a, playerColor, kingPos) ==
    LET rank == kingPos \div 8
        file == kingPos % 8
        kingBit == Bit(kingPos)
        castle == IF playerColor = 0 THEN a.WhiteCastle ELSE a.BlackCastle
        home == IF playerColor = 0 THEN 4 ELSE 60
        kingside == IF kingPos = home /\ KingsideBit(castle) # 0
                    THEN << <<kingBit, Bit(home + 2), 0>> >> ELSE <<>>
        queenside == IF kingPos = home /\ QueensideBit(castle) # 0
                     THEN << <<kingBit, Bit(home - 2), 0>> >> ELSE <<>>
    IN  MovesTo(kingBit, [i \in 1..8 |-> <<rank + KingDirections[i][1], file + KingDirections[i][2]>>])
        \o kingside \o queenside

\* Each generate... function walks its candidates and appends a candidate
\* when IsValidMove accepts it.  The definitions below give the walk, the
\* candidates in the order they are tried; GenerateWith applies the test.
generateValidKingMoves(a, playerColor) ==
    LET kingPiece == IF playerColor = 1 THEN BlackKing ELSE WhiteKing
        kingBitboard == a.Board[kingPiece]
    IN  IF kingBitboard = {} THEN <<>>
        ELSE KingCandidates(a, playerColor, findSetBit(kingBitboard))

generateValidQueenMoves(a, playerColor) ==
    LET queenPiece == IF playerColor = 1 THEN BlackQueen ELSE WhiteQueen
        positions == BitsAscending(a.Board[queenPiece])
    IN  ForEachPiece([i \in 1..Len(positions) |->
                HorizontalVertical(positions[i]) \o Diagonals(positions[i])])

generateValidRookMoves(a, playerColor) ==
    LET rookPiece == IF playerColor = 1 THEN BlackRook ELSE WhiteRook
        positions == BitsAscending(a.Board[rookPiece])
    IN  ForEachPiece([i \in 1..Len(positions) |-> HorizontalVertical(positions[i])])

generateValidBishopMoves(a, playerColor) ==
    LET bishopPiece == IF playerColor = 1 THEN BlackBishop ELSE WhiteBishop
        positions == BitsAscending(a.Board[bishopPiece])
    IN  ForEachPiece([i \in 1..Len(positions) |-> Diagonals(positions[i])])

KnightCandidates(pos) ==
    MovesTo(Bit(pos), [i \in 1..8 |-> <<(pos \div 8) + KnightOffsets[i][1],
                                        (pos % 8) + KnightOffsets[i][2]>>])

generateValidKnightMoves(a, playerColor) ==
    LET knightPiece == IF playerColor = 1 THEN BlackKnight ELSE WhiteKnight
        positions == BitsAscending(a.Board[knightPiece])
    IN  ForEachPiece([i \in 1..Len(positions) |-> KnightCandidates(positions[i])])

\* promotionPieces holding the queen four times.
PromotionPieces_queens(playerColor) ==
    IF playerColor = 0 THEN <<WhiteQueen, WhiteQueen, WhiteQueen, WhiteQueen>>
    ELSE <<BlackQueen, BlackQueen, BlackQueen, BlackQueen>>

PromotionPieces(playerColor) ==
    IF playerColor = 0 THEN <<WhiteQueen, WhiteRook, WhiteBishop, WhiteKnight>>
    ELSE <<BlackQueen, BlackRook, BlackBishop, BlackKnight>>

\* The candidates onto one square: four promotions on the promotion rank,
\* one plain move elsewhere, none off the board.
PawnStep(playerColor, pawnBit, newRank, newFile) ==
    LET promotionRank == IF playerColor = 1 THEN 0 ELSE 7
        targetBit == Bit(newRank * 8 + newFile)
    IN  IF ~OnBoard(newRank, newFile) THEN <<>>
        ELSE IF newRank = promotionRank
        THEN [i \in 1..4 |-> <<pawnBit, targetBit, PromotionPieces(playerColor)[i]>>]
        ELSE << <<pawnBit, targetBit, 0>> >>

\* The dedicated en-passant candidate of one pawn (chess.go:1785-1830).
EnPassantCandidate(a, playerColor, pawnPos) ==
    LET rank == pawnPos \div 8
        file == pawnPos % 8
        target == IF playerColor = 0 THEN a.EnPassantBlack ELSE a.EnPassantWhite
        epSquare == findSetBit(target)
        captured == IF playerColor = 0 THEN a.Board[BlackPawn] \cap Bit(epSquare - 8)
                                       ELSE a.Board[WhitePawn] \cap Bit(epSquare + 8)
    IN  IF target # {} /\ rank = (IF playerColor = 0 THEN 4 ELSE 3)
           /\ abs(file - (epSquare % 8)) = 1 /\ captured # {}
        THEN << <<Bit(pawnPos), target, 0>> >>
        ELSE <<>>

PawnCandidates(a, playerColor, pawnPos) ==
    LET rank == pawnPos \div 8
        file == pawnPos % 8
        pawnBit == Bit(pawnPos)
        rankDir == IF playerColor = 1 THEN -1 ELSE 1
        startingRank == IF playerColor = 1 THEN 6 ELSE 1
        double == IF rank = startingRank /\ OnBoard(rank + 2 * rankDir, file)
                  THEN << <<pawnBit, Bit((rank + 2 * rankDir) * 8 + file), 0>> >>
                  ELSE <<>>
    IN  PawnStep(playerColor, pawnBit, rank + rankDir, file)
        \o double
        \o PawnStep(playerColor, pawnBit, rank + rankDir, file - 1)
        \o PawnStep(playerColor, pawnBit, rank + rankDir, file + 1)
        \o EnPassantCandidate(a, playerColor, pawnPos)

generateValidPawnMoves(a, playerColor) ==
    LET pawnPiece == IF playerColor = 1 THEN BlackPawn ELSE WhitePawn
        positions == BitsAscending(a.Board[pawnPiece])
    IN  ForEachPiece([i \in 1..Len(positions) |->
                PawnCandidates(a, playerColor, positions[i])])

\* The generator proper of package v: the six lists appended, each candidate
\* kept when the package's IsValidMove accepts it.
GenerateWith(v, a) ==
    LET playerColor == a.TurnOfPlayer
    IN  SelectSeq(generateValidKingMoves(a, playerColor)
                    \o generateValidQueenMoves(a, playerColor)
                    \o generateValidRookMoves(a, playerColor)
                    \o generateValidBishopMoves(a, playerColor)
                    \o generateValidKnightMoves(a, playerColor)
                    \o generateValidPawnMoves(a, playerColor),
                  LAMBDA move : Valid(v, a, move))

\* arbiter/chess.go
GenerateValidMoves(a) == GenerateWith("arbiter", a)

\* engine1/engine.go
E1_GenerateValidMoves(a) == GenerateWith("engine1", a)

\* ------------------------------------------------------------------------
\* Check, checkmate, stalemate (arbiter/chess.go)

\* IsCheck switches TurnOfPlayer to the opponent on the arbiter it is given,
\* generates the opponent's moves and switches back; the value it returns is
\* the one computed on the switched position.
IsCheck(a) ==
    LET currentPlayerColor == a.TurnOfPlayer
        kingPiece == IF currentPlayerColor = 1 THEN BlackKing ELSE WhiteKing
        kingBitboard == a.Board[kingPiece]
    IN  IF kingBitboard = {} THEN FALSE
        ELSE \E switched \in {[a EXCEPT !.TurnOfPlayer = 1 - currentPlayerColor]} :
                \E opponentMoves \in {GenerateValidMoves(switched)} :
                    \E i \in 1..Len(opponentMoves) :
                        opponentMoves[i][2] = Bit(findSetBit(kingBitboard))

IsStaleMate(a) ==
    IF IsCheck(a) THEN FALSE ELSE Len(GenerateValidMoves(a)) = 0

\* IsCheckMate without its IsCheck test.
IsCheckMate_unchecked(a) == Len(GenerateValidMoves(a)) = 0

IsCheckMate(a) ==
    IF ~IsCheck(a) THEN FALSE ELSE Len(GenerateValidMoves(a)) = 0

\* ------------------------------------------------------------------------
\* The FEN codec (arbiter/chess.go).  A string is a sequence of characters.

\* The printable ASCII characters, code 32 first (the double quote and the
\* back quote are written out as words: no FEN string holds them).
Ascii ==
    <<
       " ", "!", "dquote", "#", "$", "%", "&", "'", "(", ")", "*", "+", ",", "-", ".", "/",
       "0", "1", "2", "3", "4", "5", "6", "7", "8", "9", ":", ";", "<", "=", ">", "?",
       "@", "A", "B", "C", "D", "E", "F", "G", "H", "I", "J", "K", "L", "M", "N", "O",
       "P", "Q", "R", "S", "T", "U", "V", "W", "X", "Y", "Z", "[", "\\", "]", "^", "_",
       "backquote", "a", "b", "c", "d", "e", "f", "g", "h", "i", "j", "k", "l", "m", "n", "o",
       "p", "q", "r", "s", "t", "u", "v", "w", "x", "y", "z", "{", "|", "}", "~"
    >>

\* The byte value of a character, and the character of a byte value.
Ord(c) == 31 + CHOOSE i \in 1..Len(Ascii) : Ascii[i] = c

Chr(n) == Ascii[n - 31]

\* strings.Split(s, " ")
RECURSIVE Split(_)
Split(s) ==
    IF \A i \in 1..Len(s) : s[i] # " " THEN <<s>>
    ELSE LET k == CHOOSE i \in 1..Len(s) : s[i] = " " /\ \A j \in 1..(i - 1) : s[j] # " "
         IN  <<SubSeq(s, 1, k - 1)>> \o Split(SubSeq(s, k + 1, Len(s)))

\* strings.Contains(s, c) for a one-character c
Contains(s, c) == \E i \in 1..Len(s) : s[i] = c

PieceLetters == <<"K", "Q", "R", "B", "N", "P", "k", "q", "r", "b", "n", "p">>

\* rnbqkbnr/pppppppp/8/8/8/8/PPPPPPPP/RNBQKBNR w KQkq - 0 1
DefaultFEN ==
    <<
       "r", "n", "b", "q", "k", "b", "n", "r", "/", "p", "p", "p", "p", "p", "p", "p", "p", "/", "8", "/",
       "8", "/", "8", "/", "8", "/", "P", "P", "P", "P", "P", "P", "P", "P", "/", "R", "N", "B", "Q", "K",
       "B", "N", "R", " ", "w", " ", "K", "Q", "k", "q", " ", "-", " ", "0", " ", "1"
    >>

EmptyBoard == [pieceType \in 0..11 |-> {}]

\* The piece-placement loop of CreateGameArbiter (chess.go:73-120): the
\* bitboards after the characters i.. of board, from the given rank and file.
RECURSIVE ParsePlacement(_, _, _, _, _)
ParsePlacement(Board, board, i, rank, file) ==
    IF i > Len(board) THEN Board
    ELSE LET char == board[i]
         IN  IF char = "/" THEN ParsePlacement(Board, board, i + 1, rank - 1, 0)
             ELSE IF char \in {"1", "2", "3", "4", "5", "6", "7", "8"}
             THEN ParsePlacement(Board, board, i + 1, rank, file + (Ord(char) - Ord("0")))
             ELSE LET bitMask == Bit(rank * 8 + file)
                      known == {p \in 1..12 : PieceLetters[p] = char}
                      next == IF known = {} THEN Board
                              ELSE LET pieceType == (CHOOSE p \in known : TRUE) - 1
                                   IN  [Board EXCEPT ![pieceType] = @ \cup bitMask]
                  IN  ParsePlacement(next, board, i + 1, rank, file + 1)

\* The castling field as the 0..3 value of one side.
ParseCastle(field, kingside, queenside) ==
    (IF Contains(field, kingside) THEN 1 ELSE 0) + (IF Contains(field, queenside) THEN 2 ELSE 0)

\* The placement loop shifts by a negative count, which stops the program:
\* a character that is neither "/" nor a digit met below the first rank.
RECURSIVE PlacementPanics(_, _, _, _)
PlacementPanics(board, i, rank, file) ==
    IF i > Len(board) THEN FALSE
    ELSE LET char == board[i]
         IN  IF char = "/" THEN PlacementPanics(board, i + 1, rank - 1, 0)
             ELSE IF char \in {"1", "2", "3", "4", "5", "6", "7", "8"}
             THEN PlacementPanics(board, i + 1, rank, file + (Ord(char) - Ord("0")))
             ELSE rank * 8 + file < 0 \/ PlacementPanics(board, i + 1, rank, file + 1)

\* len(parts) < 4 without the test below.
NotEnoughComponents_three(parts) == Len(parts) < 3

\* len(parts) < 4
NotEnoughComponents(parts) == Len(parts) < 4

\* An index out of range stops the program: a field that is not there, or
\* an en-passant field other than "-" of fewer than two characters.
IndexPanics(parts) ==
    \/ Len(parts) < 4
    \/ parts[4] # <<"-">> /\ Len(parts[4]) < 2

\* CreateGameArbiter: err for fewer than four fields (nil, no arbiter),
\* panic where the program stops, else the arbiter decoded from the first
\* four fields.
CreateGameArbiter(fenString) ==
    LET fen == IF fenString = <<>> THEN DefaultFEN ELSE fenString
        parts == Split(fen)
    IN  IF NotEnoughComponents(parts) THEN [err |-> TRUE, panic |-> FALSE]
        ELSE IF IndexPanics(parts) \/ PlacementPanics(parts[1], 1, 7, 0)
        THEN [err |-> FALSE, panic |-> TRUE]
        ELSE LET turn == IF parts[2] = <<"w">> THEN 0 ELSE 1
                 enPassantBitboard ==
                     IF parts[4] # <<"-">>
                     THEN Bit(((Ord(parts[4][2]) - Ord("1")) % 256) * 8
                              + ((Ord(parts[4][1]) - Ord("a")) % 256))
                     ELSE {}
             IN  [err |-> FALSE, panic |-> FALSE,
                  arbiter |->
                     [Board |-> ParsePlacement(EmptyBoard, parts[1], 1, 7, 0),
                      TurnOfPlayer |-> turn,
                      EnPassantWhite |-> IF turn = 0 THEN {} ELSE enPassantBitboard,
                      EnPassantBlack |-> IF turn = 0 THEN enPassantBitboard ELSE {},
                      WhiteCastle |-> ParseCastle(parts[3], "K", "Q"),
                      BlackCastle |-> ParseCastle(parts[3], "k", "q")]]

\* The letter GameArbiterToFEN writes for a square, " " for an empty one.
PieceLetterAt(a, squareIndex) ==
    LET piece == PieceAt(a, squareIndex)
    IN  IF piece = -1 THEN " " ELSE PieceLetters[piece + 1]

\* One rank of the placement field, from file on, emptySquares pending.
RECURSIVE RankToFEN(_, _, _, _)
RankToFEN(a, rank, file, emptySquares) ==
    IF file = 8
    THEN IF emptySquares > 0 THEN <<Chr(Ord("0") + emptySquares)>> ELSE <<>>
    ELSE LET piece == PieceLetterAt(a, rank * 8 + file)
         IN  IF piece = " " THEN RankToFEN(a, rank, file + 1, emptySquares + 1)
             ELSE (IF emptySquares > 0 THEN <<Chr(Ord("0") + emptySquares)>> ELSE <<>>)
                  \o <<piece>> \o RankToFEN(a, rank, file + 1, 0)

RECURSIVE PlacementToFEN(_, _)
PlacementToFEN(a, rank) ==
    RankToFEN(a, rank, 0, 0)
    \o (IF rank > 0 THEN <<"/">> \o PlacementToFEN(a, rank - 1) ELSE <<>>)

GameArbiterToFEN(a) ==
    LET castlingRights ==
            (IF KingsideBit(a.WhiteCastle) # 0 THEN <<"K">> ELSE <<>>)
            \o (IF QueensideBit(a.WhiteCastle) # 0 THEN <<"Q">> ELSE <<>>)
            \o (IF KingsideBit(a.BlackCastle) # 0 THEN <<"k">> ELSE <<>>)
            \o (IF QueensideBit(a.BlackCastle) # 0 THEN <<"q">> ELSE <<>>)
        enPassantBitboard ==
            IF a.TurnOfPlayer = 0 /\ a.EnPassantBlack # {} THEN a.EnPassantBlack
            ELSE IF a.TurnOfPlayer = 1 /\ a.EnPassantWhite # {} THEN a.EnPassantWhite
            ELSE {}
        enPassantSquare == findSetBit(enPassantBitboard)
    IN  PlacementToFEN(a, 7)
        \o (IF a.TurnOfPlayer = 0 THEN <<" ", "w", " ">> ELSE <<" ", "b", " ">>)
        \o (IF castlingRights = <<>> THEN <<"-">> ELSE castlingRights)
        \o <<" ">>
        \o (IF enPassantBitboard # {}
            THEN <<Chr(Ord("a") + (enPassantSquare % 8)), Chr(Ord("1") + (enPassantSquare \div 8))>>
            ELSE <<"-">>)
        \o <<" ", "0">>
        \o <<" ", "1">>

\* ------------------------------------------------------------------------
\* The game: an arbiter decoded from a FEN string, then plies.  A ply is what
\* one round of PlayGame's loop does to the arbiter with a move of
\* GenerateValidMoves: DoMove, then the switch of turns.

VARIABLES
    arbiter,    \* the BoardwithParameters of the ChessArbiter
    ply,        \* history: the depth of the position in the exploration
    lastMove,   \* history: the move applied last, the piece moved, the piece on to before
    rookLeft,   \* history: the home squares a rook has moved away from
    origin,     \* history: the index in Starts of the position the game began from
    game,       \* PlayGame: where the loop stands, the move in hand, the value
                \* returned; history: the arbiter before the move executed last
    query,      \* the callers running a query on the arbiter: for each its
                \* function, where it stands, its locals and the value returned;
                \* history: the turns it read, its own switch apart
    decoded,    \* a call of CreateGameArbiter: the string given, where the
                \* call stands and what it returned
    session,    \* humanarbiter: the game and the engine pipe shared by the
                \* websocket connections, and where each handleWS stands
    handler     \* a UCI engine's HandleInput: the line given and the outcome

vars == <<arbiter, ply, lastMove, rookLeft, origin, game, query, decoded, session, handler>>

\* The positions the exploration starts from.
\* r3k2r/8/8/8/8/8/8/R3K2R w KQkq - 0 1
FenCastling ==
    <<
       "r", "3", "k", "2", "r", "/", "8", "/", "8", "/", "8", "/", "8", "/", "8", "/", "8", "/", "R", "3",
       "K", "2", "R", " ", "w", " ", "K", "Q", "k", "q", " ", "-", " ", "0", " ", "1"
    >>

\* 6k1/5ppp/8/8/8/8/6PP/R5K1 w - - 0 1
FenBackRank ==
    <<
       "6", "k", "1", "/", "5", "p", "p", "p", "/", "8", "/", "8", "/", "8", "/", "8", "/", "6", "P", "P",
       "/", "R", "5", "K", "1", " ", "w", " ", "-", " ", "-", " ", "0", " ", "1"
    >>

\* k7/8/8/8/8/7p/7P/4K2R w K - 0 1
FenRookHome ==
    <<
       "k", "7", "/", "8", "/", "8", "/", "8", "/", "8", "/", "7", "p", "/", "7", "P", "/", "4", "K", "2",
       "R", " ", "w", " ", "K", " ", "-", " ", "0", " ", "1"
    >>

\* 4k3/5p2/8/4P3/8/8/8/4K3 b - - 0 1
FenDoublePush ==
    <<
       "4", "k", "3", "/", "5", "p", "2", "/", "8", "/", "4", "P", "3", "/", "8", "/", "8", "/", "8", "/",
       "4", "K", "3", " ", "b", " ", "-", " ", "-", " ", "0", " ", "1"
    >>

\* 4k1n1/8/8/4Pp2/8/8/8/4K3 w - f6 0 1
FenEnPassant ==
    <<
       "4", "k", "1", "n", "1", "/", "8", "/", "8", "/", "4", "P", "p", "2", "/", "8", "/", "8", "/", "8",
       "/", "4", "K", "3", " ", "w", " ", "-", " ", "f", "6", " ", "0", " ", "1"
    >>

\* 1n2k3/P7/8/8/8/8/7p/4K1N1 w - - 0 1
FenPromotion ==
    <<
       "1", "n", "2", "k", "3", "/", "P", "7", "/", "8", "/", "8", "/", "8", "/", "8", "/", "7", "p", "/",
       "4", "K", "1", "N", "1", " ", "w", " ", "-", " ", "-", " ", "0", " ", "1"
    >>

\* 4k3/8/8/8/4Pp2/8/8/4K3 b - e3 0 1
FenEnPassantBlack ==
    <<
       "4", "k", "3", "/", "8", "/", "8", "/", "8", "/", "4", "P", "p", "2", "/", "8", "/", "8", "/", "4",
       "K", "3", " ", "b", " ", "-", " ", "e", "3", " ", "0", " ", "1"
    >>

\* 6k1/7p/7P/8/8/8/8/R5K1 w - - 0 1
FenLoneKing ==
    <<
       "6", "k", "1", "/", "7", "p", "/", "7", "P", "/", "8", "/", "8", "/", "8", "/", "8", "/", "R", "5",
       "K", "1", " ", "w", " ", "-", " ", "-", " ", "0", " ", "1"
    >>

\* The plies explored.
MaxPly == 4

\* The starting positions, each with the ply counter it starts at: the
\* positions with many moves per side are explored less deeply.
Starts ==
    << <<DefaultFEN, 3>>, <<FenCastling, 3>>, <<FenBackRank, 3>>, <<FenRookHome, 0>>,
       <<FenDoublePush, 1>>, <<FenEnPassant, 1>>, <<FenPromotion, 2>>,
       <<FenEnPassantBlack, 3>>, <<FenLoneKing, 1>> >>

NoMove == [move |-> <<{}, {}, 0>>, piece |-> -1, captured |-> -1]

RookHomes == {0, 7, 56, 63}

\* The rook that starts on a home square: white on a1 and h1, black on a8 and h8.
HomeRook(square) == IF square \in {0, 7} THEN WhiteRook ELSE BlackRook

\* No websocket session is served and no input line is handled.
NoSession == [game |-> <<>>, stdin |-> <<>>, stdout |-> <<>>, conns |-> <<>>]

NoHandler ==
    [pc |-> "none", engine |-> "", line |-> <<>>, outcome |-> "", game |-> <<>>,
     stdout |-> <<>>, lines |-> 0]

\* No string is being decoded.
NotDecoding == [pc |-> "none", fen |-> <<>>, result |-> [err |-> FALSE, panic |-> FALSE]]

\* No match is being played: the plies below are applied directly.
NotPlaying ==
    [pc |-> "none", move |-> NoMove.move, asked |-> 0, result |-> "",
     before |-> [Board |-> EmptyBoard, TurnOfPlayer |-> 0,
                 EnPassantWhite |-> {}, EnPassantBlack |-> {},
                 WhiteCastle |-> 0, BlackCastle |-> 0]]

Init ==
    \E i \in 1..Len(Starts) :
        /\ arbiter = CreateGameArbiter(Starts[i][1]).arbiter
        /\ ply = Starts[i][2]
        /\ lastMove = NoMove
        /\ rookLeft = {}
        /\ origin = i
        /\ game = NotPlaying
        /\ query = <<>>
        /\ decoded = NotDecoding
        /\ session = NoSession
        /\ handler = NoHandler

Ply(move) ==
    LET fromPos == findSetBit(move[1])
        piece == PieceAt(arbiter, fromPos)
    IN  /\ ply < MaxPly
        /\ arbiter' = SwitchTurns(DoMove(arbiter, move))
        /\ ply' = ply + 1
        /\ lastMove' = [move |-> move, piece |-> piece,
                        captured |-> PieceAt(arbiter, findSetBit(move[2]))]
        /\ rookLeft' = IF fromPos \in RookHomes /\ piece = HomeRook(fromPos)
                       THEN rookLeft \cup {fromPos} ELSE rookLeft
        /\ UNCHANGED <<origin, game, query, decoded, session, handler>>

Next ==
    LET moves == GenerateValidMoves(arbiter)
    IN  \E i \in 1..Len(moves) : Ply(moves[i])

Spec == Init /\ [][Next]_vars

\* ------------------------------------------------------------------------
\* PlayGame (arbiter/chess.go): the match loop between two engines.  The
\* arbiter is decoded from the FEN string; each round asks the engine of the
\* side to move, asks again while IsValidMove rejects the answer, applies the
\* move, looks for the end of the game and switches turns.

\* How many times a round asks engine1 again.
MaxAsk == 2

\* What an engine may answer.  ChessEngine is an interface and PlayGame takes
\* any implementation: engine1 answers with a move its own generator returns
\* (engine.go:1904) or with e1g1 whatever the position (engine.go:36); other
\* engines are stood for by the same squares with a promotion piece.
EngineMoves(a) ==
    LET returned == UNION {{validmoves[i] : i \in 1..Len(validmoves)} :
                              validmoves \in {E1_GenerateValidMoves(a)}}
    IN  returned
            \cup {<<{4}, {6}, 0>>}
            \cup {<<m[1], m[2], p>> : m \in returned, p \in {WhiteBishop, BlackQueen}}

PlayInit ==
    \E i \in 1..Len(Starts) :
        /\ arbiter = CreateGameArbiter(Starts[i][1]).arbiter
        /\ ply = 0
        /\ lastMove = NoMove
        /\ rookLeft = {}
        /\ origin = i
        /\ game = [NotPlaying EXCEPT !.pc = "turn"]
        /\ query = <<>>
        /\ decoded = NotDecoding
        /\ session = NoSession
        /\ handler = NoHandler

\* engine1.GetMove: called at white's turn, and called again while the move
\* in hand is not valid.
GetMove ==
    /\ \/ game.pc = "turn" /\ arbiter.TurnOfPlayer = 0
       \/ /\ game.pc = "validate"
          /\ ~IsValidMove(arbiter, game.move)
          /\ game.asked < MaxAsk
    /\ \E move \in EngineMoves(arbiter) :
           game' = [game EXCEPT !.pc = "validate", !.move = move,
                                !.asked = IF game.pc = "turn" THEN 0 ELSE @ + 1]
    /\ UNCHANGED <<arbiter, ply, lastMove, rookLeft, origin, query, decoded, session, handler>>

\* Black's turn: PlayGame returns before engine2 is asked.
ReturnInvalid ==
    /\ game.pc = "turn"
    /\ arbiter.TurnOfPlayer # 0
    /\ game' = [game EXCEPT !.pc = "returned", !.result = "INVALID negr"]
    /\ UNCHANGED <<arbiter, ply, lastMove, rookLeft, origin, query, decoded, session, handler>>

\* The value PlayGame returns on the position DoMove left, "" when the game
\* goes on.
GameEnd(a) ==
    IF IsStaleMate(a) THEN "Game ended in a draw (stalemate)"
    ELSE IF IsCheckMate(a)
         THEN IF a.TurnOfPlayer = 0 THEN "Black wins by checkmate"
              ELSE "White wins by checkmate"
         ELSE ""

\* The move in hand is valid: DoMove executes it.
ExecuteMove ==
    /\ game.pc = "validate"
    /\ IsValidMove(arbiter, game.move)
    /\ arbiter' = DoMove(arbiter, game.move)
    /\ game' = [game EXCEPT !.pc = "executed", !.before = arbiter]
    /\ ply' = ply + 1
    /\ lastMove' = [move |-> game.move,
                    piece |-> PieceAt(arbiter, findSetBit(game.move[1])),
                    captured |-> PieceAt(arbiter, findSetBit(game.move[2]))]
    /\ rookLeft' = IF /\ findSetBit(game.move[1]) \in RookHomes
                      /\ PieceAt(arbiter, findSetBit(game.move[1]))
                            = HomeRook(findSetBit(game.move[1]))
                   THEN rookLeft \cup {findSetBit(game.move[1])} ELSE rookLeft
    /\ UNCHANGED <<origin, query, decoded, session, handler>>

\* After the move: the end of the game is looked for on the arbiter as DoMove
\* left it, and the turns are switched if the game goes on.
CheckGameEnd ==
    /\ game.pc = "executed"
    /\ \E result \in {GameEnd(arbiter)} :
        /\ arbiter' = IF result = "" THEN SwitchTurns(arbiter) ELSE arbiter
        /\ game' = [game EXCEPT !.pc = IF result = "" THEN "turn" ELSE "returned",
                                !.result = result]
    /\ UNCHANGED <<ply, lastMove, rookLeft, origin, query, decoded, session, handler>>

PlayNext ==
    \/ GetMove
    \/ ReturnInvalid
    \/ ExecuteMove
    \/ CheckGameEnd

PlaySpec == PlayInit /\ [][PlayNext]_vars

\* ------------------------------------------------------------------------
\* The queries as the callers of one ChessArbiter run them.  The functions
\* take a pointer: what IsCheck writes to TurnOfPlayer is written to the
\* arbiter of every caller that holds it.  A step is one statement that
\* reads or writes the arbiter; the steps of the callers interleave.

Queries ==
    {"IsCheck", "IsStaleMate", "IsCheckMate", "GenerateValidMoves", "IsValidMove",
     "E1_IsCheck", "E1_IsValidMove"}

\* The positions the queries are run on, as indices in Starts.
QueryOrigins == {3, 5, 7}

\* The arbiter the callers were given.
Original == CreateGameArbiter(Starts[origin][1]).arbiter

Caller(op) ==
    [op |-> op,
     pc |-> IF op = "GenerateValidMoves" THEN "moves"
            ELSE IF op \in {"IsValidMove", "E1_IsValidMove"} THEN "validate"
            ELSE "read",
     currentPlayerColor |-> -1, kingPos |-> -1, move |-> NoMove.move,
     seen |-> {}, result |-> FALSE]

QueryInit ==
    \E i \in QueryOrigins :
        /\ arbiter = CreateGameArbiter(Starts[i][1]).arbiter
        /\ ply = 0
        /\ lastMove = NoMove
        /\ rookLeft = {}
        /\ origin = i
        /\ game = NotPlaying
        /\ \/ \E op \in Queries : query = <<Caller(op)>>
           \/ \E op1 \in Queries, op2 \in Queries : query = <<Caller(op1), Caller(op2)>>
        /\ decoded = NotDecoding
        /\ session = NoSession
        /\ handler = NoHandler

\* IsCheck has its answer: IsCheck returns it, IsStaleMate and IsCheckMate
\* return false or go on to generate the moves.
Checked(caller, check) ==
    IF caller.op \in {"IsCheck", "E1_IsCheck"}
    THEN [caller EXCEPT !.pc = "done", !.result = check]
    ELSE IF (caller.op = "IsStaleMate") = check
    THEN [caller EXCEPT !.pc = "done", !.result = FALSE]
    ELSE [caller EXCEPT !.pc = "moves"]

\* IsCheck reads the turn and the king's bitboard; without a king it
\* returns false.
ReadTurn(c) ==
    /\ query[c].pc = "read"
    /\ \E color \in {arbiter.TurnOfPlayer} :
        \E kingBitboard \in {arbiter.Board[IF color = 1 THEN BlackKing ELSE WhiteKing]} :
            \E caller \in {[query[c] EXCEPT !.currentPlayerColor = color,
                                           !.kingPos = findSetBit(kingBitboard),
                                           !.seen = @ \cup {color}]} :
                query' = [query EXCEPT ![c] =
                            IF kingBitboard = {} THEN Checked(caller, FALSE)
                            ELSE [caller EXCEPT !.pc = "switch"]]
    /\ UNCHANGED <<arbiter, ply, lastMove, rookLeft, origin, game, decoded, session, handler>>

\* IsCheck switches the turn to the opponent on the arbiter it was given.
SwitchTurn(c) ==
    /\ query[c].pc = "switch"
    /\ arbiter' = [arbiter EXCEPT !.TurnOfPlayer = 1 - query[c].currentPlayerColor]
    /\ query' = [query EXCEPT ![c].pc = "attack"]
    /\ UNCHANGED <<ply, lastMove, rookLeft, origin, game, decoded, session, handler>>

\* GenerateValidMoves on the arbiter as it stands: the opponent's moves in
\* the arbiter's IsCheck, the legal moves in the other queries.
Generate(c) ==
    /\ query[c].pc \in {"attack", "moves"}
    /\ query[c].op # "E1_IsCheck"
    /\ \E moves \in {GenerateValidMoves(arbiter)} :
        \E caller \in {[query[c] EXCEPT !.seen = IF query[c].pc = "attack" THEN @
                                                 ELSE @ \cup {arbiter.TurnOfPlayer}]} :
            query' = [query EXCEPT ![c] =
                IF caller.pc = "attack"
                THEN [caller EXCEPT !.pc = "restore",
                                    !.result = \E i \in 1..Len(moves) :
                                                   moves[i][2] = Bit(caller.kingPos)]
                ELSE [caller EXCEPT !.pc = "done",
                                    !.result = IF caller.op = "GenerateValidMoves"
                                               THEN moves ELSE Len(moves) = 0]]
    /\ UNCHANGED <<arbiter, ply, lastMove, rookLeft, origin, game, decoded, session, handler>>

\* engine1's IsCheck asks isSquareAttacked instead.
Attacked(c) ==
    /\ query[c].pc = "attack"
    /\ query[c].op = "E1_IsCheck"
    /\ query' = [query EXCEPT ![c].pc = "restore",
                              ![c].result = isSquareAttacked(arbiter, query[c].kingPos,
                                                             1 - query[c].currentPlayerColor)]
    /\ UNCHANGED <<arbiter, ply, lastMove, rookLeft, origin, game, decoded, session, handler>>

\* The restore of IsCheck left out.
Restored_skipped(a, originalTurn) == a

\* arbiter.BoardwithParameters.TurnOfPlayer = currentPlayerColor
Restored(a, originalTurn) == [a EXCEPT !.TurnOfPlayer = originalTurn]

\* IsCheck restores the turn it read and has its answer.
RestoreTurn(c) ==
    /\ query[c].pc = "restore"
    /\ arbiter' = Restored(arbiter, query[c].currentPlayerColor)
    /\ query' = [query EXCEPT ![c] = Checked(query[c], query[c].result)]
    /\ UNCHANGED <<ply, lastMove, rookLeft, origin, game, decoded, session, handler>>

\* IsValidMove of either package on a king move the generator tries; engine1
\* probes the destination on bufferArbiter, a copy of the arbiter.
Validate(c) ==
    /\ query[c].pc = "validate"
    /\ \E candidates \in {generateValidKingMoves(arbiter, arbiter.TurnOfPlayer)} :
        \E i \in 1..Len(candidates) :
            query' = [query EXCEPT
                ![c].pc = "done",
                ![c].move = candidates[i],
                ![c].seen = @ \cup {arbiter.TurnOfPlayer},
                ![c].result = Valid(IF query[c].op = "IsValidMove" THEN "arbiter"
                                    ELSE "engine1", arbiter, candidates[i])]
    /\ UNCHANGED <<arbiter, ply, lastMove, rookLeft, origin, game, decoded, session, handler>>

QueryNext ==
    \/ \E c \in DOMAIN query : ReadTurn(c)
    \/ \E c \in DOMAIN query : SwitchTurn(c)
    \/ \E c \in DOMAIN query : Generate(c)
    \/ \E c \in DOMAIN query : Attacked(c)
    \/ \E c \in DOMAIN query : RestoreTurn(c)
    \/ \E c \in DOMAIN query : Validate(c)

QuerySpec == QueryInit /\ [][QueryNext]_vars

\* ------------------------------------------------------------------------
\* CreateGameArbiter called on a string: well-formed strings, strings cut
\* after some fields, and strings with an ill-formed placement field.

\* The first n space-separated fields of s, joined by single spaces.
RECURSIVE Join(_)
Join(parts) ==
    IF parts = <<>> THEN <<>>
    ELSE IF Len(parts) = 1 THEN parts[1]
    ELSE parts[1] \o <<" ">> \o Join(Tail(parts))

Fields(s, n) == Join(SubSeq(Split(s), 1, n))

\* " w - - 0 1"
FenTail == <<" ", "w", " ", "-", " ", "-", " ", "0", " ", "1">>

\* 4k3/8/8/8/8/8/8/4KxR1: a letter that names no piece
PlacementUnknownLetter ==
    <<"4", "k", "3", "/", "8", "/", "8", "/", "8", "/", "8", "/", "8", "/", "8", "/",
      "4", "K", "x", "R", "1">>

\* 4k3/8/8/8/8/8/8/4K3R: nine files on the first rank
PlacementNineFiles ==
    <<"4", "k", "3", "/", "8", "/", "8", "/", "8", "/", "8", "/", "8", "/", "8", "/",
      "4", "K", "3", "R">>

\* 4k3/8/8/8/8/8/8/4K3/R7: nine ranks
PlacementNineRanks ==
    <<"4", "k", "3", "/", "8", "/", "8", "/", "8", "/", "8", "/", "8", "/", "8", "/",
      "4", "K", "3", "/", "R", "7">>

\* 4k3/8/8/8/8/8/8/4K3/8: nine ranks, the ninth empty
PlacementNinthRankEmpty ==
    <<"4", "k", "3", "/", "8", "/", "8", "/", "8", "/", "8", "/", "8", "/", "8", "/",
      "4", "K", "3", "/", "8">>

\* 4k3/8/8/8/8/8/8/4K9: a digit that is no count of files
PlacementNine ==
    <<"4", "k", "3", "/", "8", "/", "8", "/", "8", "/", "8", "/", "8", "/", "8", "/",
      "4", "K", "9">>

\* R8/8/8/8/8/8/8/4K3: nine files on the eighth rank
PlacementNineFilesTop ==
    <<"R", "8", "R", "/", "8", "/", "8", "/", "8", "/", "8", "/", "8", "/", "8", "/",
      "4", "K", "3">>

BadPlacements ==
    {PlacementUnknownLetter, PlacementNineFiles, PlacementNineRanks,
     PlacementNinthRankEmpty, PlacementNine, PlacementNineFilesTop}

\* The strings decoded.
FenInputs ==
    {Fields(Starts[i][1], n) : i \in 1..Len(Starts), n \in 0..6}
    \cup {placement \o FenTail : placement \in BadPlacements}
    \cup {Fields(placement \o FenTail, n) : placement \in BadPlacements, n \in 1..3}

NoArbiter ==
    [Board |-> EmptyBoard, TurnOfPlayer |-> 0, EnPassantWhite |-> {},
     EnPassantBlack |-> {}, WhiteCastle |-> 0, BlackCastle |-> 0]

DecodeInit ==
    /\ arbiter = NoArbiter
    /\ ply = 0
    /\ lastMove = NoMove
    /\ rookLeft = {}
    /\ origin = 1
    /\ game = NotPlaying
    /\ query = <<>>
    /\ \E fen \in FenInputs : decoded = [NotDecoding EXCEPT !.pc = "call", !.fen = fen]
    /\ session = NoSession
    /\ handler = NoHandler

\* The call returns: an error, a stop of the program, or the arbiter.
Decode ==
    /\ decoded.pc = "call"
    /\ \E result \in {CreateGameArbiter(decoded.fen)} :
            /\ decoded' = [decoded EXCEPT !.pc = "returned", !.result = result]
            /\ arbiter' = IF result.err \/ result.panic THEN arbiter ELSE result.arbiter
    /\ UNCHANGED <<ply, lastMove, rookLeft, origin, game, query, session, handler>>

DecodeNext == Decode

DecodeSpec == DecodeInit /\ [][DecodeNext]_vars

\* ------------------------------------------------------------------------
\* humanarbiter/main.go: the websocket server.  main creates one game and
\* one engine process, package variables shared by every connection; the
\* http server runs handleWS in a goroutine of its own for each connection.
\* The game is the chess library's: here its position is the list of the
\* moves applied, each with the connection that applied it (history), a
\* move is the pair of the From and To strings, and the library's rules are
\* cut down to a few moves of each side, each legal once, when that side is
\* to move.  The engine process answers each position it is sent, in the
\* order sent, with a legal move of the side to move in that position.

\* The messages one connection sends, and the connections served.
MaxReceive == 2

MaxConns == 2

SquareNames == {"a2", "a3", "a6", "a7", "b1", "b8", "c2", "c3", "c4", "c5", "c6", "c7",
                "e2", "e4", "e5", "e7", "f3", "f6", "g1", "g8"}

\* What the frontend sends: a white move, a black move, a move no piece
\* can make, and a message without its To field.
HumanInputs == {<<"e2", "e4">>, <<"e7", "e5">>, <<"e2", "e5">>, <<"e2", "">>}

WhiteReplies == << <<"c2", "c4">>, <<"g1", "f3">>, <<"b1", "c3">>, <<"a2", "a3">> >>

BlackReplies == << <<"c7", "c5">>, <<"g8", "f6">>, <<"b8", "c6">>, <<"a7", "a6">> >>

WhiteMoves == {<<"e2", "e4">>} \cup {WhiteReplies[i] : i \in 1..4}

BlackMoves == {<<"e7", "e5">>} \cup {BlackReplies[i] : i \in 1..4}

\* chess.UCINotation{}.Decode fails on a string that does not name two squares.
DecodeFails(moveStr) == moveStr[1] \notin SquareNames \/ moveStr[2] \notin SquareNames

\* game.Move accepts a move of the side to move that has not been played.
Legal(position, mv) ==
    /\ mv \in (IF Len(position) % 2 = 0 THEN WhiteMoves ELSE BlackMoves)
    /\ \A i \in 1..Len(position) : position[i].move # mv

\* The engine's answer to "position fen ..." and "go": the first of its
\* moves that is legal in the position sent.
BestMoveOf(fen) ==
    LET replies == IF Len(fen) % 2 = 0 THEN WhiteReplies ELSE BlackReplies
        legal == {i \in 1..4 : Legal(fen, replies[i])}
    IN  IF legal = {} THEN <<"(none)", "">>
        ELSE replies[CHOOSE i \in legal : \A j \in legal : i <= j]

NoMoveStr == <<"", "">>

Connection ==
    [pc |-> "receive", received |-> 0, move |-> NoMoveStr, fen |-> <<>>,
     bestMove |-> NoMoveStr, validated |-> <<>>, asked |-> 0, accepted |-> 0,
     responses |-> <<>>]

WsInit ==
    /\ arbiter = NoArbiter
    /\ ply = 0
    /\ lastMove = NoMove
    /\ rookLeft = {}
    /\ origin = 1
    /\ game = NotPlaying
    /\ query = <<>>
    /\ decoded = NotDecoding
    /\ handler = NoHandler
    /\ \E n \in 1..MaxConns :
            session = [NoSession EXCEPT !.conns = [c \in 1..n |-> Connection]]

\* websocket.JSON.Receive: the next message of the frontend.
Receive(c) ==
    /\ session.conns[c].pc = "receive"
    /\ session.conns[c].received < MaxReceive
    /\ \E move \in HumanInputs :
            session' = [session EXCEPT !.conns[c].pc = "decode",
                                       !.conns[c].received = @ + 1,
                                       !.conns[c].move = move]
    /\ UNCHANGED <<arbiter, ply, lastMove, rookLeft, origin, game, query, decoded, handler>>

\* The {error} response and the continue of the loop, without the continue.
Reject_engineAsked(s, c) ==
    [s EXCEPT !.conns[c].pc = "fen",
              !.conns[c].responses = Append(@, [error |-> TRUE])]

\* The {error} response and the continue of the loop.
Reject(s, c) ==
    [s EXCEPT !.conns[c].pc = "receive",
              !.conns[c].responses = Append(@, [error |-> TRUE])]

\* chess.UCINotation{}.Decode(game.Position(), moveStr) of the human move.
DecodeHuman(c) ==
    /\ session.conns[c].pc = "decode"
    /\ session' = IF DecodeFails(session.conns[c].move)
                  THEN Reject(session, c)
                  ELSE [session EXCEPT !.conns[c].pc = "move",
                                       !.conns[c].validated = session.game]
    /\ UNCHANGED <<arbiter, ply, lastMove, rookLeft, origin, game, query, decoded, handler>>

\* game.Move(mv) of the human move.
MoveHuman(c) ==
    /\ session.conns[c].pc = "move"
    /\ session' = IF ~Legal(session.game, session.conns[c].move)
                  THEN Reject(session, c)
                  ELSE [session EXCEPT
                           !.game = Append(@, [move |-> session.conns[c].move, by |-> c]),
                           !.conns[c].pc = "fen",
                           !.conns[c].accepted = @ + 1]
    /\ UNCHANGED <<arbiter, ply, lastMove, rookLeft, origin, game, query, decoded, handler>>

\* fen := game.Position().String() and the two Send of GetBestMove.
AskEngine(c) ==
    /\ session.conns[c].pc = "fen"
    /\ session' = [session EXCEPT !.conns[c].pc = "scan",
                                   !.conns[c].fen = session.game,
                                   !.conns[c].asked = @ + 1,
                                   !.stdin = Append(@, session.game)]
    /\ UNCHANGED <<arbiter, ply, lastMove, rookLeft, origin, game, query, decoded, handler>>

\* The engine process answers the position it was sent first.
EngineAnswers ==
    /\ session.stdin # <<>>
    /\ session' = [session EXCEPT !.stdin = Tail(@),
                                   !.stdout = Append(@, BestMoveOf(Head(session.stdin)))]
    /\ UNCHANGED <<arbiter, ply, lastMove, rookLeft, origin, game, query, decoded, handler>>

\* The scan of GetBestMove: the next bestmove line of the engine's output.
ScanBestMove(c) ==
    /\ session.conns[c].pc = "scan"
    /\ session.stdout # <<>>
    /\ session' = [session EXCEPT !.conns[c].pc = "engineMove",
                                   !.conns[c].bestMove = Head(session.stdout),
                                   !.stdout = Tail(@)]
    /\ UNCHANGED <<arbiter, ply, lastMove, rookLeft, origin, game, query, decoded, handler>>

\* Decode and game.Move of the engine's move: an error is logged only.
MoveEngine(c) ==
    /\ session.conns[c].pc = "engineMove"
    /\ session' = IF Legal(session.game, session.conns[c].bestMove)
                  THEN [session EXCEPT
                           !.game = Append(@, [move |-> session.conns[c].bestMove, by |-> c]),
                           !.conns[c].pc = "send"]
                  ELSE [session EXCEPT !.conns[c].pc = "send"]
    /\ UNCHANGED <<arbiter, ply, lastMove, rookLeft, origin, game, query, decoded, handler>>

\* The {fen, move} response.
SendState(c) ==
    /\ session.conns[c].pc = "send"
    /\ session' = [session EXCEPT
                      !.conns[c].pc = "receive",
                      !.conns[c].responses =
                          Append(@, [error |-> FALSE, fen |-> session.game,
                                     move |-> session.conns[c].bestMove])]
    /\ UNCHANGED <<arbiter, ply, lastMove, rookLeft, origin, game, query, decoded, handler>>

WsNext ==
    \/ \E c \in DOMAIN session.conns : Receive(c)
    \/ \E c \in DOMAIN session.conns : DecodeHuman(c)
    \/ \E c \in DOMAIN session.conns : MoveHuman(c)
    \/ \E c \in DOMAIN session.conns : AskEngine(c)
    \/ EngineAnswers
    \/ \E c \in DOMAIN session.conns : ScanBestMove(c)
    \/ \E c \in DOMAIN session.conns : MoveEngine(c)
    \/ \E c \in DOMAIN session.conns : SendState(c)

WsSpec == WsInit /\ [][WsNext]_vars

\* ------------------------------------------------------------------------
\* The UCI engines.  chessEngine1 (RandomEngine), chessEngine2 (Engine) and
\* the engine of the unnamed package read stdin by lines in main and give
\* each line to HandleInput.  handler.pc is "scan" while main's loop runs,
\* "exited" after os.Exit(0) and "panicked" after a run-time panic, which
\* nothing recovers.

MaxLines == 2

Engines == {"chessEngine1", "chessEngine2", "unnamed"}

UciWord == <<"u", "c", "i">>
IsReadyWord == <<"i", "s", "r", "e", "a", "d", "y">>
PositionWord == <<"p", "o", "s", "i", "t", "i", "o", "n">>
GoWord == <<"g", "o">>
QuitWord == <<"q", "u", "i", "t">>
StartposWord == <<"s", "t", "a", "r", "t", "p", "o", "s">>
FenWord == <<"f", "e", "n">>
MovesWord == <<"m", "o", "v", "e", "s">>

\* The lines scanner.Text() returns: the commands, the two commands the
\* arbiters send ("position fen <fen>" and "go nodes 2"), the empty line,
\* lines of one character and lines of no command.
InputLines ==
    { UciWord, IsReadyWord, GoWord, QuitWord, PositionWord,
      Join(<<PositionWord, StartposWord>>),
      Join(<<PositionWord, FenWord, FenCastling>>),
      Join(<<PositionWord, FenWord, FenCastling, MovesWord, <<"e", "1", "g", "1">> >>),
      Join(<<PositionWord, FenWord, <<"8", "/", "8">> >>),
      Join(<<PositionWord, <<"x">> >>),
      Join(<<GoWord, <<"n", "o", "d", "e", "s">>, <<"2">> >>),
      <<>>, <<"g">>, <<" ">>, <<"u", "c">>, <<"s", "t", "o", "p">> }

\* strings.HasPrefix(s, prefix)
HasPrefix(s, prefix) == Len(s) >= Len(prefix) /\ SubSeq(s, 1, Len(prefix)) = prefix

\* strings.Fields(s): the words of s around runs of spaces
StringsFields(s) == SelectSeq(Split(s), LAMBDA word : word # <<>>)

\* The slice expression input[:high] panics when high is out of range.
SlicePanics(input, high) == high > Len(input)

\* The case of the switch that sends the line to playMove or makeMove:
\* input[:2] == "go" in chessEngine1 and chessEngine2, input == "go" in the
\* unnamed package.
IsGo(engine, input) ==
    IF engine = "unnamed" THEN input = GoWord ELSE SubSeq(input, 1, 2) = GoWord

\* The fen of chess.NewGame().
StartGame == DefaultFEN

\* The words of a "position fen" command from the third one up to "moves".
RECURSIVE FenParts(_)
FenParts(tokens) ==
    IF tokens = <<>> \/ Head(tokens) = MovesWord THEN <<>>
    ELSE <<Head(tokens)>> \o FenParts(Tail(tokens))

\* setPosition: the game the engine holds after the command.  chess.FEN
\* rejects a string that has not six fields; the moves are not applied.
setPosition(engine, held, command) ==
    LET tokens == StringsFields(command)
    IN  IF Len(tokens) < 2 THEN StartGame
        ELSE IF tokens[2] = StartposWord THEN StartGame
        ELSE IF tokens[2] = FenWord
             THEN LET fenParts == FenParts(SubSeq(tokens, 3, Len(tokens)))
                  IN  IF Len(fenParts) # 6 THEN StartGame ELSE Join(fenParts)
        ELSE IF engine = "chessEngine1" THEN StartGame
        ELSE held

\* What HandleInput and the functions it calls print to stdout.
UciLines(engine) ==
    << IF engine = "chessEngine1" THEN "id name RandomEngine" ELSE "id name AlphaBetaEngine",
       "id author You", "uciok" >>

\* main's loop has given the line to HandleInput and HandleInput returned.
Handled(input, outcome, held, printed) ==
    handler' = [handler EXCEPT !.line = input, !.outcome = outcome, !.game = held,
                               !.stdout = handler.stdout \o printed,
                               !.lines = handler.lines + 1]

Scanning == handler.pc = "scan" /\ handler.lines < MaxLines

Others == <<arbiter, ply, lastMove, rookLeft, origin, game, query, decoded, session>>

HandlerInit ==
    /\ arbiter = NoArbiter
    /\ ply = 0
    /\ lastMove = NoMove
    /\ rookLeft = {}
    /\ origin = 1
    /\ game = NotPlaying
    /\ query = <<>>
    /\ decoded = NotDecoding
    /\ session = NoSession
    /\ \E engine \in Engines :
            handler = [NoHandler EXCEPT !.pc = "scan", !.engine = engine, !.game = StartGame]

\* case input == "uci"
HandleUci(input) ==
    /\ Scanning
    /\ input = UciWord
    /\ Handled(input, "uci", handler.game, UciLines(handler.engine))
    /\ UNCHANGED Others

\* case input == "isready"
HandleIsReady(input) ==
    /\ Scanning
    /\ input # UciWord
    /\ input = IsReadyWord
    /\ Handled(input, "isready", handler.game, <<"readyok">>)
    /\ UNCHANGED Others

\* case strings.HasPrefix(input, "position")
HandlePosition(input) ==
    /\ Scanning
    /\ input \notin {UciWord, IsReadyWord}
    /\ HasPrefix(input, PositionWord)
    /\ Handled(input, "position", setPosition(handler.engine, handler.game, input), <<>>)
    /\ UNCHANGED Others

\* The case of "go" is reached when the three cases above it do not match.
ReachesGo(input) ==
    /\ Scanning
    /\ input \notin {UciWord, IsReadyWord}
    /\ ~HasPrefix(input, PositionWord)

\* The expression input[:2] of the case is out of range: the engine dies.
HandleGoPanics(input) ==
    /\ ReachesGo(input)
    /\ handler.engine # "unnamed"
    /\ SlicePanics(input, 2)
    /\ handler' = [handler EXCEPT !.pc = "panicked", !.line = input, !.outcome = "panic",
                                  !.lines = handler.lines + 1]
    /\ UNCHANGED Others

\* case "go": playMove or makeMove prints the move it chose.
HandleGo(input) ==
    /\ ReachesGo(input)
    /\ handler.engine = "unnamed" \/ ~SlicePanics(input, 2)
    /\ IsGo(handler.engine, input)
    /\ Handled(input, "go", handler.game, <<"bestmove">>)
    /\ UNCHANGED Others

\* case input == "quit": os.Exit(0)
HandleQuit(input) ==
    /\ ReachesGo(input)
    /\ handler.engine = "unnamed" \/ ~SlicePanics(input, 2)
    /\ ~IsGo(handler.engine, input)
    /\ input = QuitWord
    /\ handler' = [handler EXCEPT !.pc = "exited", !.line = input, !.outcome = "quit",
                                  !.lines = handler.lines + 1]
    /\ UNCHANGED Others

\* No case matches: the line is ignored.
HandleNothing(input) ==
    /\ ReachesGo(input)
    /\ handler.engine = "unnamed" \/ ~SlicePanics(input, 2)
    /\ ~IsGo(handler.engine, input)
    /\ input # QuitWord
    /\ Handled(input, "ignored", handler.game, <<>>)
    /\ UNCHANGED Others

HandlerNext ==
    \/ \E input \in InputLines : HandleUci(input)
    \/ \E input \in InputLines : HandleIsReady(input)
    \/ \E input \in InputLines : HandlePosition(input)
    \/ \E input \in InputLines : HandleGoPanics(input)
    \/ \E input \in InputLines : HandleGo(input)
    \/ \E input \in InputLines : HandleQuit(input)
    \/ \E input \in InputLines : HandleNothing(input)

HandlerSpec == HandlerInit /\ [][HandlerNext]_vars

\* ------------------------------------------------------------------------
\* Properties.

KingOf(color) == IF color = 1 THEN BlackKing ELSE WhiteKing

\* The king of color stands on a square a piece of the other colour attacks.
InCheck(a, color) ==
    /\ a.Board[KingOf(color)] # {}
    /\ isSquareAttacked(a, findSetBit(a.Board[KingOf(color)]), 1 - color)

InMoves(move, moves) == \E i \in 1..Len(moves) : moves[i] = move

Moved == lastMove.piece # -1
LastFrom == findSetBit(lastMove.move[1])
LastTo == findSetBit(lastMove.move[2])
LastColor == IF lastMove.piece >= BlackKing THEN 1 ELSE 0
DoublePush ==
    /\ lastMove.piece \in {WhitePawn, BlackPawn}
    /\ abs(LastTo - LastFrom) = 16
PassedSquare == (LastFrom + LastTo) \div 2

\* C1: every move GenerateValidMoves returns leaves, once DoMove has applied
\* it, the king of the side that moved on a square no opposing piece attacks.
C1_LegalityClosure ==
    LET moves == GenerateValidMoves(arbiter)
    IN  \A i \in 1..Len(moves) :
            ~InCheck(DoMove(arbiter, moves[i]), arbiter.TurnOfPlayer)

\* C2: for every position reached from the starting position,
\* CreateGameArbiter(GameArbiterToFEN(p)) succeeds and equals p in the twelve
\* bitboards, the turn, both castling fields and both en-passant targets.
C2_FENRoundTrip ==
    origin = 1 =>
        LET again == CreateGameArbiter(GameArbiterToFEN(arbiter))
        IN  ~again.err /\ again.arbiter = arbiter

\* C3: on the ply after a pawn double push, GenerateValidMoves of the
\* opponent holds the en-passant capture onto the passed-over square for
\* every opposing pawn standing beside the pushed pawn.
C3_EnPassantAvailable ==
    (Moved /\ DoublePush) =>
        LET moves == GenerateValidMoves(arbiter)
            capturer == IF LastColor = 0 THEN BlackPawn ELSE WhitePawn
        IN  \A pawnPos \in arbiter.Board[capturer] :
                (pawnPos \div 8 = LastTo \div 8 /\ abs(pawnPos - LastTo) = 1)
                    => InMoves(<<{pawnPos}, {PassedSquare}, 0>>, moves)

\* C4: IsCheckMate is true of every position whose side to move is in check
\* and has no move that leaves its own king unattacked.
C4_CheckmateDetected ==
    LET moves == GenerateValidMoves(arbiter)
        color == arbiter.TurnOfPlayer
    IN  (/\ InCheck(arbiter, color)
         /\ \A i \in 1..Len(moves) : InCheck(DoMove(arbiter, moves[i]), color))
            => IsCheckMate(arbiter)

\* The piece a castling move would move is a king on its home square.
KingAtHome(a, castling) ==
    \/ castling[1] = {4} /\ a.Board[WhiteKing] = {4}
    \/ castling[1] = {60} /\ a.Board[BlackKing] = {60}

\* The castling move that goes with the rook of a home square.
CastleWith(home) ==
    CASE home = 7 -> <<{4}, {6}, 0>>
      [] home = 0 -> <<{4}, {2}, 0>>
      [] home = 63 -> <<{60}, {62}, 0>>
      [] home = 56 -> <<{60}, {58}, 0>>

\* C5: once a rook has moved off its home square, GenerateValidMoves never
\* again offers the castling move with that rook.
C5_CastlingGatedOverTime ==
    LET moves == GenerateValidMoves(arbiter)
    IN  \A home \in rookLeft :
            ~(KingAtHome(arbiter, CastleWith(home)) /\ InMoves(CastleWith(home), moves))

\* The castling flag that goes with the rook of a home square is clear.
FlagCleared(a, home) ==
    CASE home = 7 -> KingsideBit(a.WhiteCastle) = 0
      [] home = 0 -> QueensideBit(a.WhiteCastle) = 0
      [] home = 63 -> KingsideBit(a.BlackCastle) = 0
      [] home = 56 -> QueensideBit(a.BlackCastle) = 0

\* C6: after a move in which a rook leaves its home square, or captures a
\* rook standing on its home square, the castling flag of that rook is clear.
C6_RookBookkeeping ==
    Moved =>
        /\ (LastFrom \in RookHomes /\ lastMove.piece = HomeRook(LastFrom))
              => FlagCleared(arbiter, LastFrom)
        /\ (LastTo \in RookHomes /\ lastMove.captured = HomeRook(LastTo))
              => FlagCleared(arbiter, LastTo)

\* C7: after any move, both en-passant targets are empty, unless the move was
\* a pawn double push: then exactly one is set, to the passed-over square.
C7_EnPassantRecomputed ==
    Moved =>
        IF DoublePush
        THEN \/ arbiter.EnPassantWhite = {PassedSquare} /\ arbiter.EnPassantBlack = {}
             \/ arbiter.EnPassantBlack = {PassedSquare} /\ arbiter.EnPassantWhite = {}
        ELSE arbiter.EnPassantWhite = {} /\ arbiter.EnPassantBlack = {}

\* C8: in every reachable position each colour's king bitboard has exactly
\* one bit set.
C8_KingUniqueness ==
    /\ Cardinality(arbiter.Board[WhiteKing]) = 1
    /\ Cardinality(arbiter.Board[BlackKing]) = 1

\* C9: in every reachable position the twelve bitboards are pairwise
\* disjoint.
C9_OnePiecePerSquare ==
    \A p, q \in 0..11 : p # q => arbiter.Board[p] \cap arbiter.Board[q] = {}

\* A pawn has just captured on its last rank and been promoted there.
C9_CapturedAndPromoted ==
    /\ lastMove.piece = WhitePawn
    /\ lastMove.captured = BlackKnight
    /\ LastTo \div 8 = 7
    /\ arbiter.Board[lastMove.move[3]] \cap lastMove.move[2] # {}
    /\ arbiter.Board[BlackKnight] \cap lastMove.move[2] = {}

\* The castling moves of the side to move, each with the square the
\* king passes over.
Castlings(color) ==
    IF color = 0
    THEN {<<<<{4}, {6}, 0>>, 5>>, <<<<{4}, {2}, 0>>, 3>>}
    ELSE {<<<<{60}, {62}, 0>>, 61>>, <<<<{60}, {58}, 0>>, 59>>}

\* C10: IsValidMove, the arbiter's and the engine's, accepts a castling move
\* only if the king is not in check and neither the square it passes over nor
\* its destination is attacked by an opposing piece.
C10_CastlingSafety ==
    LET color == arbiter.TurnOfPlayer
    IN  \A c \in Castlings(color) :
            (/\ KingAtHome(arbiter, c[1])
             /\ IsValidMove(arbiter, c[1]) \/ E1_IsValidMove(arbiter, c[1])) =>
                /\ ~InCheck(arbiter, color)
                /\ ~isSquareAttacked(arbiter, c[2], 1 - color)
                /\ ~isSquareAttacked(arbiter, findSetBit(c[1][2]), 1 - color)

PawnOf(color) == IF color = 1 THEN BlackPawn ELSE WhitePawn
OwnPromotions(color) ==
    IF color = 0 THEN {WhiteQueen, WhiteRook, WhiteBishop, WhiteKnight}
    ELSE {BlackQueen, BlackRook, BlackBishop, BlackKnight}
\* The square in front of a pawn of color, and the rank it promotes from.
Front(color, pos) == IF color = 0 THEN pos + 8 ELSE pos - 8
LastButOneRank(color) == IF color = 0 THEN 6 ELSE 1

\* C11: for a pawn of the side to move one rank before its back rank with
\* the square in front empty, GenerateValidMoves holds exactly four moves to
\* that square, one per promotion piece of the mover's colour, and DoMove of
\* each leaves exactly that piece on the destination and nothing on the
\* origin.
C11_PromotionComplete ==
    LET color == arbiter.TurnOfPlayer
        moves == GenerateValidMoves(arbiter)
    IN  \A pos \in arbiter.Board[PawnOf(color)] :
            LET front == Front(color, pos)
                idx == {i \in 1..Len(moves) : moves[i][1] = {pos} /\ moves[i][2] = {front}}
            IN  (pos \div 8 = LastButOneRank(color) /\ PieceAt(arbiter, front) = -1) =>
                    /\ Cardinality(idx) = 4
                    /\ {moves[i][3] : i \in idx} = OwnPromotions(color)
                    /\ \A i \in idx :
                          LET after == DoMove(arbiter, moves[i])
                          IN  /\ \A p \in 0..11 :
                                    (front \in after.Board[p]) <=> (p = moves[i][3])
                              /\ PieceAt(after, pos) = -1

\* A pawn has just stepped onto its back rank without capturing and the
\* piece it asked for stands there.
C11_Promoted ==
    /\ lastMove.piece \in {WhitePawn, BlackPawn}
    /\ lastMove.captured = -1
    /\ LastTo \div 8 = (IF LastColor = 0 THEN 7 ELSE 0)
    /\ lastMove.move[3] \in OwnPromotions(LastColor)
    /\ LastTo \in arbiter.Board[lastMove.move[3]]

\* A pawn of the side to move goes diagonally onto an empty square.
EnPassantMove(a, move) ==
    LET fromPos == findSetBit(move[1])
        toPos == findSetBit(move[2])
    IN  /\ PieceAt(a, fromPos) = PawnOf(a.TurnOfPlayer)
        /\ fromPos % 8 # toPos % 8
        /\ PieceAt(a, toPos) = -1

\* The square one rank behind an en-passant target, seen from the capturer.
Behind(color, toPos) == IF color = 0 THEN toPos - 8 ELSE toPos + 8

\* C12: DoMove of an en-passant capture removes the enemy pawn one rank
\* behind the target, puts the capturing pawn on the target, and changes no
\* other square of any bitboard.
C12_EnPassantCaptureEffect ==
    LET color == arbiter.TurnOfPlayer
        moves == GenerateValidMoves(arbiter)
    IN  \A i \in 1..Len(moves) :
            EnPassantMove(arbiter, moves[i]) =>
                LET behind == Behind(color, findSetBit(moves[i][2]))
                    after == DoMove(arbiter, moves[i])
                IN  /\ behind \in arbiter.Board[PawnOf(1 - color)]
                    /\ after.Board =
                          [p \in 0..11 |->
                              IF p = PawnOf(color)
                              THEN (arbiter.Board[p] \ moves[i][1]) \cup moves[i][2]
                              ELSE IF p = PawnOf(1 - color)
                              THEN arbiter.Board[p] \ {behind}
                              ELSE arbiter.Board[p]]

\* A pawn has just captured en passant: it stands on the square it went
\* to diagonally, which was empty, and the square behind it is empty now.
C12_CapturedEnPassant ==
    /\ lastMove.piece \in {WhitePawn, BlackPawn}
    /\ lastMove.captured = -1
    /\ LastFrom % 8 # LastTo % 8
    /\ LastTo \in arbiter.Board[lastMove.piece]
    /\ PieceAt(arbiter, Behind(LastColor, LastTo)) = -1

\* The four castling flags of a position, each 0 or 1.
Flags(a) ==
    <<KingsideBit(a.WhiteCastle), QueensideBit(a.WhiteCastle),
      KingsideBit(a.BlackCastle), QueensideBit(a.BlackCastle)>>

\* C13: a king move, castling or not, leaves both castling flags of its side
\* 0, and no applied move sets a castling flag that is 0.
C13_KingMoveClearsRights ==
    [][/\ lastMove'.piece = WhiteKing => arbiter'.WhiteCastle = 0
       /\ lastMove'.piece = BlackKing => arbiter'.BlackCastle = 0
       /\ \A i \in 1..4 : Flags(arbiter')[i] <= Flags(arbiter)[i]]_vars

\* The game began with white holding a castling right, white's king has
\* moved in an earlier ply, and after a later move of another piece white's
\* rights are still 0.
C13_RightsStayCleared ==
    /\ CreateGameArbiter(Starts[origin][1]).arbiter.WhiteCastle # 0
    /\ arbiter.Board[WhiteKing] # {4}
    /\ arbiter.WhiteCastle = 0
    /\ Moved /\ lastMove.piece # WhiteKing

\* C14: the position DoMove produces has TurnOfPlayer equal to the colour
\* opposite to the side that moved.
C14_ApplyFlipsTurn ==
    LET moves == GenerateValidMoves(arbiter)
    IN  \A i \in 1..Len(moves) :
            DoMove(arbiter, moves[i]).TurnOfPlayer = 1 - arbiter.TurnOfPlayer

\* An en-passant target names an empty square and the pawn pushed over it
\* stands one rank beyond: a white pawn above a target on the third rank, a
\* black pawn below a target on the sixth.
TargetSound(a, target) ==
    /\ PieceAt(a, target) = -1
    /\ \/ target \div 8 = 2 /\ target + 8 \in a.Board[WhitePawn]
       \/ target \div 8 = 5 /\ target - 8 \in a.Board[BlackPawn]

\* C15: in every reachable position an en-passant target that is set names
\* an empty square with the pushed pawn one rank beyond it.
C15_EnPassantTargetSound ==
    \A target \in arbiter.EnPassantWhite \cup arbiter.EnPassantBlack :
        TargetSound(arbiter, target)

\* ------------------------------------------------------------------------
\* The calls IsCheck can lead to.  Each package's functions are listed with
\* the functions of the package their bodies call; a function that calls
\* none is left out of the domain.

Generators ==
    {"generateValidKingMoves", "generateValidQueenMoves", "generateValidRookMoves",
     "generateValidBishopMoves", "generateValidKnightMoves", "generateValidPawnMoves"}

Validators ==
    {"isValidPawnMove", "isValidKingMove", "isValidBishopMove", "isValidRookMove",
     "isValidKnightMove"}

\* arbiter/chess.go
ArbiterCalls ==
    [f \in {"IsCheck", "IsStaleMate", "IsCheckMate", "GenerateValidMoves", "IsValidMove"}
            \cup Generators \cup Validators |->
        CASE f = "IsCheck" -> {"findSetBit", "GenerateValidMoves"}
          [] f \in {"IsStaleMate", "IsCheckMate"} -> {"IsCheck", "GenerateValidMoves"}
          [] f = "GenerateValidMoves" -> Generators
          [] f = "generateValidPawnMoves" -> {"findSetBit", "abs", "IsValidMove"}
          [] f \in Generators \ {"generateValidPawnMoves"} -> {"findSetBit", "IsValidMove"}
          [] f = "IsValidMove" ->
                {"findSetBit", "countSetBits", "getPieceAtPosition"} \cup Validators
          [] f = "isValidPawnMove" ->
                {"findSetBit", "getPieceAtPosition", "abs", "isValidPromotion"}
          [] f = "isValidKingMove" -> {"findSetBit", "getPieceAtPosition", "abs"}
          [] f = "isValidBishopMove" -> {"findSetBit", "getPieceAtPosition", "abs", "sign"}
          [] f = "isValidRookMove" -> {"findSetBit", "getPieceAtPosition", "min", "max"}
          [] f = "isValidKnightMove" -> {"findSetBit", "abs"}]

\* engine1/engine.go: IsCheck asks isSquareAttacked, and isValidKingMove
\* asks IsCheck.
Engine1Calls ==
    [f \in {"IsCheck", "isSquareAttacked", "GenerateValidMoves", "IsValidMove"}
            \cup Generators \cup Validators |->
        CASE f = "IsCheck" -> {"findSetBit", "isSquareAttacked"}
          [] f = "isSquareAttacked" -> {"abs"}
          [] f = "isValidKingMove" -> {"findSetBit", "getPieceAtPosition", "abs", "IsCheck"}
          [] OTHER -> ArbiterCalls[f]]

Callees(calls, f) == IF f \in DOMAIN calls THEN calls[f] ELSE {}

RECURSIVE Closure(_, _)
Closure(calls, reached) ==
    LET next == reached \cup UNION {Callees(calls, f) : f \in reached}
    IN  IF next = reached THEN reached ELSE Closure(calls, next)

\* Every function a call of f can lead to.
CallChain(calls, f) == Closure(calls, Callees(calls, f))

\* The functions a call of IsCheck on position a leads to: none when the
\* king of the side to move is missing, for IsCheck returns before its
\* first call.
IsCheckCalls(calls, a) ==
    IF a.Board[IF a.TurnOfPlayer = 1 THEN BlackKing ELSE WhiteKing] = {} THEN {}
    ELSE CallChain(calls, "IsCheck")

\* C16: IsCheck, the arbiter's and the engine's, decides without
\* GenerateValidMoves anywhere in its call chain.
C16_CheckWithoutGeneration ==
    /\ "GenerateValidMoves" \notin IsCheckCalls(ArbiterCalls, arbiter)
    /\ "GenerateValidMoves" \notin IsCheckCalls(Engine1Calls, arbiter)

\* C17: IsCheckMate and IsStaleMate are never both true of a position.
C17_MateExcludesStalemate ==
    ~(IsCheckMate(arbiter) /\ IsStaleMate(arbiter))

\* The side to move has no move to make and IsStaleMate says so, while
\* IsCheckMate says no.
C17_Stalemate ==
    /\ Len(GenerateValidMoves(arbiter)) = 0
    /\ IsStaleMate(arbiter)
    /\ ~IsCheckMate(arbiter)

\* C18: IsValidMove accepts a pawn move onto the last rank only with a
\* promotion piece that is a queen, rook, bishop or knight of the mover's
\* own colour.
C18_PromotionValidated ==
    LET color == arbiter.TurnOfPlayer
    IN  \A pos \in arbiter.Board[PawnOf(color)] :
            pos \div 8 = LastButOneRank(color) =>
                \A toPos \in {Front(color, pos) + d : d \in {-1, 0, 1}} :
                    \A promotionPiece \in 0..11 :
                        IsValidMove(arbiter, <<{pos}, {toPos}, promotionPiece>>)
                            => promotionPiece \in OwnPromotions(color)

\* PlayGame has executed a move and looked for the end of the game.
Executed == game.pc \in {"turn", "returned"} /\ Moved

\* C19: a move PlayGame executes is a member of GenerateValidMoves for the
\* position it is executed on.
C19_OnlyGeneratedMovesApplied ==
    Executed =>
        InMoves(lastMove.move, GenerateValidMoves(game.before))

\* No generated move of the side to move leaves its own king unattacked.
NoSafeMove(a) ==
    LET moves == GenerateValidMoves(a)
    IN  \A i \in 1..Len(moves) : InCheck(DoMove(a, moves[i]), a.TurnOfPlayer)

\* The position PlayGame holds after a ply, seen by the opponent of the mover.
AfterPly == [arbiter EXCEPT !.TurnOfPlayer = 1 - LastColor]

\* C20: after each ply it applies, PlayGame ends with "White wins by
\* checkmate" exactly when black, then to move, is checkmated, with "Black
\* wins by checkmate" exactly when white is, and with the draw exactly when
\* the side to move is stalemated.
C20_GameEndReported ==
    Executed =>
        LET mated == InCheck(AfterPly, 1 - LastColor) /\ NoSafeMove(AfterPly)
            stalemated == ~InCheck(AfterPly, 1 - LastColor) /\ NoSafeMove(AfterPly)
        IN  /\ game.result = "White wins by checkmate" <=> (LastColor = 0 /\ mated)
            /\ game.result = "Black wins by checkmate" <=> (LastColor = 1 /\ mated)
            /\ game.result = "Game ended in a draw (stalemate)" <=> stalemated

\* C21: PlayGame asks engine1 when white is to move and engine2 when black
\* is, ply after ply, and returns only when the position is checkmate or
\* stalemate.
C21_TurnsAlternate ==
    game.pc = "returned" =>
        game.result \in {"White wins by checkmate", "Black wins by checkmate",
                         "Game ended in a draw (stalemate)"}

\* C22: a query run by the only caller of an arbiter returns with the
\* arbiter as it was given: the twelve bitboards, the turn, both castling
\* fields and both en-passant targets.
C22_QueriesReadOnly ==
    (Len(query) = 1 /\ query[1].pc = "done") => arbiter = Original

\* The only caller ran IsCheck, of either package, through the switch of
\* turns and the restore.
C22_CheckReturned ==
    /\ Len(query) = 1
    /\ query[1].op \in {"IsCheck", "E1_IsCheck"}
    /\ query[1].pc = "done"
    /\ query[1].kingPos # -1
    /\ query[1].currentPlayerColor = arbiter.TurnOfPlayer

\* What a query returns when it runs alone on the arbiter a.
Alone(caller, a) ==
    CASE caller.op = "IsCheck" -> IsCheck(a)
      [] caller.op = "IsStaleMate" -> IsStaleMate(a)
      [] caller.op = "IsCheckMate" -> IsCheckMate(a)
      [] caller.op = "GenerateValidMoves" -> GenerateValidMoves(a)
      [] caller.op = "IsValidMove" -> IsValidMove(a, caller.move)
      [] caller.op = "E1_IsCheck" -> E1_IsCheck(a)
      [] caller.op = "E1_IsValidMove" -> E1_IsValidMove(a, caller.move)

\* C23: callers running queries concurrently on one arbiter each get what
\* the query returns when run alone, and none reads a TurnOfPlayer other
\* than the one stored before the calls began.
C23_QueriesIndependent ==
    \A c \in DOMAIN query :
        /\ query[c].seen \subseteq {Original.TurnOfPlayer}
        /\ query[c].pc = "done" => query[c].result = Alone(query[c], Original)


\* The space-separated fields of a string: one more than its spaces.
FieldCount(fen) == 1 + Cardinality({i \in 1..Len(fen) : fen[i] = " "})

\* C24: CreateGameArbiter returns an error and no arbiter for a string of
\* fewer than four space-separated fields; the empty string is decoded as
\* the default FEN and gives an arbiter.
C24_TooFewFieldsRejected ==
    decoded.pc = "returned" =>
        /\ (decoded.fen # <<>> /\ FieldCount(decoded.fen) < 4) =>
              (decoded.result.err /\ "arbiter" \notin DOMAIN decoded.result)
        /\ decoded.fen = <<>> =>
              (~decoded.result.err /\ "arbiter" \in DOMAIN decoded.result
               /\ arbiter.Board[WhiteKing] = {4} /\ arbiter.TurnOfPlayer = 0)

\* A string of three fields was given and the call has returned its error.
C24_ThreeFieldsRejected ==
    /\ decoded.pc = "returned"
    /\ FieldCount(decoded.fen) = 3
    /\ decoded.result.err

\* The placement field of a string: the characters before its first space.
PlacementOf(fen) ==
    IF \A i \in 1..Len(fen) : fen[i] # " " THEN fen
    ELSE SubSeq(fen, 1, (CHOOSE i \in 1..Len(fen) :
                            fen[i] = " " /\ \A j \in 1..(i - 1) : fen[j] # " ") - 1)

FileDigits == {"1", "2", "3", "4", "5", "6", "7", "8"}

\* The squares the characters from..to of a placement field stand for.
RECURSIVE RankWidth(_, _, _)
RankWidth(board, from, to) ==
    IF from > to THEN 0
    ELSE (IF board[from] \in FileDigits THEN Ord(board[from]) - Ord("0") ELSE 1)
         + RankWidth(board, from + 1, to)

\* A placement field with a character that is no piece letter, file count
\* or "/", with more than eight ranks, or with a rank of more than eight
\* files.
IllFormedPlacement(board) ==
    LET slashes == {i \in 1..Len(board) : board[i] = "/"}
        cuts == slashes \cup {0, Len(board) + 1}
    IN  \/ \E i \in 1..Len(board) :
              board[i] \notin FileDigits \cup {"/"} \cup {PieceLetters[p] : p \in 1..12}
        \/ Cardinality(slashes) > 7
        \/ \E from \in cuts, to \in cuts :
              /\ from < to
              /\ \A k \in cuts : ~(from < k /\ k < to)
              /\ RankWidth(board, from + 1, to - 1) > 8

\* C25: CreateGameArbiter returns an error for a string whose placement
\* field has an unknown piece letter or more ranks or files than the board.
C25_IllFormedPlacementRejected ==
    (decoded.pc = "returned" /\ IllFormedPlacement(PlacementOf(decoded.fen)))
        => decoded.result.err

\* C26: engine1's IsValidMove accepts a move of the king of the side to
\* move to an adjacent empty square exactly when, with the king on that
\* square, no piece of the other colour attacks it.
C26_KingStepOntoSafeSquare ==
    LET color == arbiter.TurnOfPlayer
        kingPiece == KingOf(color)
        kingBitboard == arbiter.Board[kingPiece]
        fromPos == findSetBit(kingBitboard)
    IN  kingBitboard # {} =>
            \A toPos \in Squares :
                (/\ toPos # fromPos
                 /\ abs((toPos \div 8) - (fromPos \div 8)) <= 1
                 /\ abs((toPos % 8) - (fromPos % 8)) <= 1
                 /\ PieceAt(arbiter, toPos) = -1)
                    => (E1_IsValidMove(arbiter, <<kingBitboard, Bit(toPos), 0>>)
                        <=> ~InCheck(BufferArbiter(arbiter, kingPiece, kingBitboard,
                                                   Bit(toPos), color), color))

\* The colour of a piece.
ColorOfPiece(piece) == IF piece >= BlackKing THEN 1 ELSE 0

\* The moves the side to move could ask for: a square holding one of its
\* pieces, any square, and as promotion one of the mover's four promotion
\* pieces for a pawn landing on the back rank and 0 for every other move.
AskableMoves(a) ==
    UNION {
        LET piece == PieceAt(a, fromPos)
            color == a.TurnOfPlayer
        IN  IF piece = -1 \/ ColorOfPiece(piece) # color THEN {}
            ELSE UNION {
                    IF /\ piece \in {WhitePawn, BlackPawn}
                       /\ toPos \div 8 = (IF color = 0 THEN 7 ELSE 0)
                    THEN {<<{fromPos}, {toPos}, promo>> :
                            promo \in {PromotionPieces(color)[k] : k \in 1..4}}
                    ELSE {<<{fromPos}, {toPos}, 0>>}
                    : toPos \in Squares}
        : fromPos \in Squares}

\* C27: GenerateValidMoves returns exactly the askable moves that
\* IsValidMove accepts: every move returned is askable and accepted, and
\* every askable move accepted is returned.
C27_GeneratorAgreesWithValidator ==
    LET moves == GenerateValidMoves(arbiter)
    IN  /\ \A i \in 1..Len(moves) :
              moves[i] \in AskableMoves(arbiter) /\ IsValidMove(arbiter, moves[i])
        /\ \A move \in AskableMoves(arbiter) :
              IsValidMove(arbiter, move) => InMoves(move, moves)

\* After a move of each side the white king stands on e1 and
\* GenerateValidMoves returns its castling move to g1 together with a move
\* of another piece.
C27_CastlingReturned ==
    /\ Moved
    /\ arbiter.TurnOfPlayer = 0
    /\ arbiter.Board[WhiteKing] = {4}
    /\ \E moves \in {GenerateValidMoves(arbiter)} :
            /\ InMoves(<<{4}, {6}, 0>>, moves)
            /\ \E i \in 1..Len(moves) : moves[i][1] # {4}

\* The pieces of a colour that move along ranks and files, and those that
\* move along diagonals.
StraightSliders(color) == IF color = 0 THEN {WhiteRook, WhiteQueen} ELSE {BlackRook, BlackQueen}

DiagonalSliders(color) == IF color = 0 THEN {WhiteBishop, WhiteQueen} ELSE {BlackBishop, BlackQueen}

\* The squares strictly between two squares of one rank, file or diagonal.
Between(p, q) ==
    LET rankDiff == (q \div 8) - (p \div 8)
        fileDiff == (q % 8) - (p % 8)
        n == IF abs(rankDiff) > abs(fileDiff) THEN abs(rankDiff) ELSE abs(fileDiff)
    IN  {((p \div 8) + k * (rankDiff \div n)) * 8 + (p % 8) + k * (fileDiff \div n) :
            k \in 1..(n - 1)}

\* A rook or queen of color stands on the rank or file of square, or a
\* bishop or queen of color on one of its diagonals, with every square
\* between them empty.
SliderSees(a, square, color) ==
    \/ \E piece \in StraightSliders(color) : \E q \in a.Board[piece] \ {square} :
            /\ q \div 8 = square \div 8 \/ q % 8 = square % 8
            /\ \A m \in Between(square, q) : PieceAt(a, m) = -1
    \/ \E piece \in DiagonalSliders(color) : \E q \in a.Board[piece] \ {square} :
            /\ abs((q \div 8) - (square \div 8)) = abs((q % 8) - (square % 8))
            /\ \A m \in Between(square, q) : PieceAt(a, m) = -1

\* C28: the sliding part of isSquareAttacked reports a square as attacked
\* exactly when the first piece met on one of its four straight rays is a
\* rook or queen of the attacker, or on one of its four diagonal rays a
\* bishop or queen of the attacker; a ray ends at the edge of the board.
C28_SlidingAttacks ==
    \A square \in Squares, attackerColor \in {0, 1} :
        SlidingAttacked(arbiter, square, attackerColor)
            <=> SliderSees(arbiter, square, attackerColor)

\* After a move, a bishop or queen attacks a square along a diagonal of
\* more than one step and a rook or queen another along a rank or file.
C28_DistantAttacks ==
    /\ Moved
    /\ \E square \in Squares, q \in Squares, color \in {0, 1} :
            /\ abs((q \div 8) - (square \div 8)) >= 2
            /\ abs((q \div 8) - (square \div 8)) = abs((q % 8) - (square % 8))
            /\ \E piece \in DiagonalSliders(color) : q \in arbiter.Board[piece]
            /\ \A m \in Between(square, q) : PieceAt(arbiter, m) = -1
            /\ SlidingAttacked(arbiter, square, color)
    /\ \E square \in Squares, q \in Squares, color \in {0, 1} :
            /\ q % 8 = 7 /\ square % 8 < 6 /\ q \div 8 = square \div 8
            /\ \E piece \in StraightSliders(color) : q \in arbiter.Board[piece]
            /\ \A m \in Between(square, q) : PieceAt(arbiter, m) = -1
            /\ SlidingAttacked(arbiter, square, color)

\* A pawn, knight or king of color stands where it attacks square: a white
\* pawn one rank below and a black pawn one rank above on an adjacent file,
\* a knight a knight's step away, a king on an adjacent square.
StepperSees(a, square, color) ==
    \/ \E q \in a.Board[IF color = 0 THEN WhitePawn ELSE BlackPawn] :
            /\ (square \div 8) - (q \div 8) = (IF color = 0 THEN 1 ELSE -1)
            /\ abs((q % 8) - (square % 8)) = 1
    \/ \E q \in a.Board[IF color = 0 THEN WhiteKnight ELSE BlackKnight] :
            {abs((square \div 8) - (q \div 8)), abs((q % 8) - (square % 8))} = {1, 2}
    \/ \E q \in a.Board[KingOf(color)] \ {square} :
            /\ abs((square \div 8) - (q \div 8)) <= 1
            /\ abs((q % 8) - (square % 8)) <= 1

\* C29: the pawn, knight and king parts of isSquareAttacked report a
\* square as attacked exactly when a pawn of the attacker stands diagonally
\* behind it (below for white, above for black), a knight of the attacker a
\* knight's step away, or the attacker's king on an adjacent square; no
\* offset wraps around the a-file or the h-file.
C29_StepAttacks ==
    \A square \in Squares, attackerColor \in {0, 1} :
        StepAttacked(arbiter, square, attackerColor)
            <=> StepperSees(arbiter, square, attackerColor)

\* After a move, a white pawn stands on the h-file two ranks below a square
\* of the a-file that StepAttacked reports as not attacked by white, and a
\* knight and a pawn each attack a square.
C29_EdgePawn ==
    /\ Moved
    /\ \E square \in Squares :
            /\ square % 8 = 0 /\ square >= 16
            /\ PieceAt(arbiter, square - 9) = WhitePawn
            /\ ~StepAttacked(arbiter, square, 0)
    /\ \E square \in Squares, color \in {0, 1} :
            /\ OffsetAttacked(arbiter, square, {-17, -15, -10, -6, 6, 10, 15, 17},
                              IF color = 0 THEN WhiteKnight ELSE BlackKnight, TRUE)
            /\ StepAttacked(arbiter, square, color)
    /\ \E square \in Squares : PawnAttacked(arbiter, square, 1)

\* The en-passant target of the side to move: the square its pawns may
\* capture onto in passing.
EnPassantTarget(a) == IF a.TurnOfPlayer = 0 THEN a.EnPassantBlack ELSE a.EnPassantWhite

\* A pawn of the side to move going from fromPos to toPos is a single push
\* onto an empty square, a double push from the home rank over and onto
\* empty squares, or a diagonal step forward onto an enemy piece or onto the
\* empty en-passant target with the enemy pawn one rank behind it.
PawnShape(a, fromPos, toPos) ==
    LET color == a.TurnOfPlayer
        forward == IF color = 0 THEN 1 ELSE -1
        homeRank == IF color = 0 THEN 1 ELSE 6
        enemyPawn == IF color = 0 THEN BlackPawn ELSE WhitePawn
        rankDiff == (toPos \div 8) - (fromPos \div 8)
        fileDiff == (toPos % 8) - (fromPos % 8)
    IN  \/ /\ rankDiff = forward /\ fileDiff = 0
           /\ PieceAt(a, toPos) = -1
        \/ /\ rankDiff = 2 * forward /\ fileDiff = 0
           /\ fromPos \div 8 = homeRank
           /\ PieceAt(a, fromPos + 8 * forward) = -1
           /\ PieceAt(a, toPos) = -1
        \/ /\ rankDiff = forward /\ abs(fileDiff) = 1
           /\ \/ PieceAt(a, toPos) # -1 /\ ColorOfPiece(PieceAt(a, toPos)) # color
              \/ /\ PieceAt(a, toPos) = -1
                 /\ EnPassantTarget(a) = {toPos}
                 /\ (toPos - 8 * forward) \in a.Board[enemyPawn]

\* C30: for a pawn of the side to move and a destination off the back
\* rank, IsValidMove accepts the move exactly when it is a single push, a
\* double push from the home rank or a diagonal capture, en passant
\* included; the promotion field plays no part.
C30_PawnMoveShapes ==
    LET color == arbiter.TurnOfPlayer
        backRank == IF color = 0 THEN 7 ELSE 0
    IN  \A fromPos \in arbiter.Board[IF color = 0 THEN WhitePawn ELSE BlackPawn] :
            \A toPos \in Squares, promotionPiece \in {0, WhiteQueen} :
                toPos \div 8 # backRank =>
                    (IsValidMove(arbiter, <<{fromPos}, {toPos}, promotionPiece>>)
                        <=> PawnShape(arbiter, fromPos, toPos))

\* The side to move has a pawn whose capture in passing onto the empty
\* en-passant target IsValidMove accepts, and IsValidMove rejects the step
\* of that pawn onto the other, empty diagonal square.
C30_EnPassantAccepted ==
    \E fromPos \in arbiter.Board[IF arbiter.TurnOfPlayer = 0 THEN WhitePawn ELSE BlackPawn] :
        \E target \in EnPassantTarget(arbiter) :
            /\ PieceAt(arbiter, target) = -1
            /\ IsValidMove(arbiter, <<{fromPos}, {target}, 0>>)
            /\ \E toPos \in Squares :
                    /\ toPos # target
                    /\ toPos \div 8 = target \div 8
                    /\ abs((toPos % 8) - (fromPos % 8)) = 1
                    /\ ~IsValidMove(arbiter, <<{fromPos}, {toPos}, 0>>)

\* The step from fromPos to toPos is a knight's, runs along a diagonal over
\* empty squares, or runs along a rank or file over empty squares.
KnightShape(fromPos, toPos) ==
    {abs((toPos \div 8) - (fromPos \div 8)), abs((toPos % 8) - (fromPos % 8))} = {1, 2}

BishopShape(a, fromPos, toPos) ==
    /\ abs((toPos \div 8) - (fromPos \div 8)) = abs((toPos % 8) - (fromPos % 8))
    /\ \A m \in Between(fromPos, toPos) : PieceAt(a, m) = -1

RookShape(a, fromPos, toPos) ==
    /\ toPos \div 8 = fromPos \div 8 \/ toPos % 8 = fromPos % 8
    /\ \A m \in Between(fromPos, toPos) : PieceAt(a, m) = -1

\* C31: with a knight, bishop, rook or queen of the side to move on from
\* and no piece of that side on to, IsValidMove accepts the move exactly
\* when it has the shape of the piece: a knight's step, a clear diagonal, a
\* clear rank or file, and for the queen either of the last two.
C31_PieceShapes ==
    LET color == arbiter.TurnOfPlayer
        pieces == IF color = 0 THEN {WhiteKnight, WhiteBishop, WhiteRook, WhiteQueen}
                  ELSE {BlackKnight, BlackBishop, BlackRook, BlackQueen}
        held == UNION {arbiter.Board[piece] : piece \in pieces}
    IN  \A fromPos \in held, toPos \in Squares, promotionPiece \in {0, WhiteQueen} :
            LET piece == PieceAt(arbiter, fromPos)
                onTo == PieceAt(arbiter, toPos)
                accepted == IsValidMove(arbiter, <<{fromPos}, {toPos}, promotionPiece>>)
            IN  (/\ piece # -1 /\ ColorOfPiece(piece) = color
                 /\ ~(onTo # -1 /\ ColorOfPiece(onTo) = color))
                    => /\ piece \in {WhiteKnight, BlackKnight}
                            => (accepted <=> KnightShape(fromPos, toPos))
                       /\ piece \in {WhiteBishop, BlackBishop}
                            => (accepted <=> BishopShape(arbiter, fromPos, toPos))
                       /\ piece \in {WhiteRook, BlackRook}
                            => (accepted <=> RookShape(arbiter, fromPos, toPos))
                       /\ piece \in {WhiteQueen, BlackQueen}
                            => (accepted <=> (\/ BishopShape(arbiter, fromPos, toPos)
                                              \/ RookShape(arbiter, fromPos, toPos)))

\* After a move, IsValidMove accepts a bishop's move of two or more steps
\* and rejects a move of the same bishop along a diagonal on which a piece
\* stands in between.
C31_BishopBlocked ==
    /\ Moved
    /\ \E fromPos \in arbiter.Board[IF arbiter.TurnOfPlayer = 0 THEN WhiteBishop ELSE BlackBishop] :
            /\ \E toPos \in Squares :
                    /\ abs((toPos \div 8) - (fromPos \div 8)) >= 2
                    /\ IsValidMove(arbiter, <<{fromPos}, {toPos}, 0>>)
            /\ \E toPos \in Squares :
                    /\ abs((toPos \div 8) - (fromPos \div 8)) = abs((toPos % 8) - (fromPos % 8))
                    /\ PieceAt(arbiter, toPos) = -1
                    /\ \E m \in Between(fromPos, toPos) : PieceAt(arbiter, m) # -1
                    /\ ~IsValidMove(arbiter, <<{fromPos}, {toPos}, 0>>)

\* The home square of the rook a castling king moving from fromPos to toPos
\* takes along: the corner of the king's rank on the side it moves to.
CastlingRookHome(fromPos, toPos) == (fromPos \div 8) * 8 + (IF toPos > fromPos THEN 7 ELSE 0)

\* C32: DoMove of a generated king move of two files puts the king on its
\* destination, moves the rook of that side from its home corner to the
\* square the king crossed, leaves every other bitboard as it was, clears
\* both castling flags of that side and keeps those of the other side.
C32_CastlingRelocatesRook ==
    LET moves == GenerateValidMoves(arbiter)
        color == arbiter.TurnOfPlayer
        kingPiece == KingOf(color)
        rook == IF color = 0 THEN WhiteRook ELSE BlackRook
    IN  \A i \in 1..Len(moves) :
            LET fromPos == findSetBit(moves[i][1])
                toPos == findSetBit(moves[i][2])
                after == DoMove(arbiter, moves[i])
            IN  (PieceAt(arbiter, fromPos) = kingPiece /\ abs(toPos - fromPos) = 2)
                    => /\ fromPos = (IF color = 0 THEN 4 ELSE 60)
                       /\ after.Board =
                             [piece \in 0..11 |->
                                 IF piece = kingPiece THEN {toPos}
                                 ELSE IF piece = rook
                                 THEN (arbiter.Board[rook] \ {CastlingRookHome(fromPos, toPos)})
                                      \cup {(fromPos + toPos) \div 2}
                                 ELSE arbiter.Board[piece]]
                       /\ CastlingRookHome(fromPos, toPos) \in arbiter.Board[rook]
                       /\ (IF color = 0 THEN after.WhiteCastle ELSE after.BlackCastle) = 0
                       /\ (IF color = 0 THEN after.BlackCastle = arbiter.BlackCastle
                                        ELSE after.WhiteCastle = arbiter.WhiteCastle)

\* A king has just castled: it moved two files and the rook of its side
\* stands on the square it crossed.
C32_Castled ==
    /\ Moved
    /\ lastMove.piece \in {WhiteKing, BlackKing}
    /\ abs(LastTo - LastFrom) = 2
    /\ PassedSquare \in arbiter.Board[IF lastMove.piece = WhiteKing THEN WhiteRook ELSE BlackRook]
    /\ arbiter.Board[lastMove.piece] = {LastTo}

\* Values of from and to with no bit or two bits set, and a few with one.
NotOneBit == {{}, {0, 1}, {4, 60}, {12, 20}, {44, 52}, {6, 62}}

SomeBitboards == NotOneBit \cup {{0}, {4}, {12}, {28}, {52}, {60}}

\* The squares holding a piece of color.
HeldBy(a, color) ==
    {square \in Squares :
        PieceAt(a, square) # -1 /\ ColorOfPiece(PieceAt(a, square)) = color}

\* IsValidMove rejects the move from fromBitboard to toBitboard whatever
\* the promotion field.
Rejected(a, fromBitboard, toBitboard) ==
    \A promotionPiece \in {0, WhiteQueen} :
        ~IsValidMove(a, <<fromBitboard, toBitboard, promotionPiece>>)

\* C33: IsValidMove returns false whenever from or to has not exactly one
\* bit set, no piece of the side to move stands on from, or a piece of the
\* side to move stands on to (from = to included), whatever the promotion
\* field.
C33_PreChecksReject ==
    LET own == HeldBy(arbiter, arbiter.TurnOfPlayer)
    IN  /\ \A bad \in NotOneBit, any \in SomeBitboards :
              Rejected(arbiter, bad, any) /\ Rejected(arbiter, any, bad)
        /\ \A fromPos \in Squares \ own :
              \A toPos \in {fromPos - 8, fromPos + 1, fromPos + 8, fromPos + 17} \cap Squares :
                  Rejected(arbiter, {fromPos}, {toPos})
        /\ \A fromPos \in own, toPos \in own :
              Rejected(arbiter, {fromPos}, {toPos})

\* After a move, a rook or queen of the side to move stands beside a piece
\* of its own side on its rank, and IsValidMove rejects its move onto that
\* square, while it accepts another move of the same piece.
C33_OwnPieceNotCaptured ==
    /\ Moved
    /\ \E fromPos \in Squares, toPos \in Squares :
            /\ PieceAt(arbiter, fromPos) \in StraightSliders(arbiter.TurnOfPlayer)
            /\ toPos \div 8 = fromPos \div 8 /\ abs(toPos - fromPos) = 1
            /\ toPos \in HeldBy(arbiter, arbiter.TurnOfPlayer)
            /\ ~IsValidMove(arbiter, <<{fromPos}, {toPos}, 0>>)
            /\ \E other \in Squares : IsValidMove(arbiter, <<{fromPos}, {other}, 0>>)

\* The squares of the board holding a bit of a piece of color, counted
\* once for each bitboard that holds them.
Material(a, color) ==
    LET pieces == IF color = 0 THEN WhiteKing..WhitePawn ELSE BlackKing..BlackPawn
    IN  {<<piece, square>> : piece \in pieces, square \in Squares}
            \cap UNION {{<<piece, square>> : square \in a.Board[piece]} : piece \in pieces}

\* C34: DoMove of a generated move leaves the number of the mover's pieces
\* unchanged and removes at most one piece of the other side: the piece on
\* the destination square, or for a pawn's capture in passing the pawn
\* beside the square it left.
C34_MaterialAccounting ==
    LET moves == GenerateValidMoves(arbiter)
        color == arbiter.TurnOfPlayer
    IN  \A i \in 1..Len(moves) :
            LET fromPos == findSetBit(moves[i][1])
                toPos == findSetBit(moves[i][2])
                after == DoMove(arbiter, moves[i])
                removed == Material(arbiter, 1 - color) \ Material(after, 1 - color)
                passed == (fromPos \div 8) * 8 + (toPos % 8)
            IN  /\ Cardinality(Material(after, color)) = Cardinality(Material(arbiter, color))
                /\ Material(after, 1 - color) \subseteq Material(arbiter, 1 - color)
                /\ Cardinality(removed) <= 1
                /\ \A taken \in removed :
                      \/ taken[2] = toPos
                      \/ /\ PieceAt(arbiter, fromPos) \in {WhitePawn, BlackPawn}
                         /\ taken = <<IF color = 0 THEN BlackPawn ELSE WhitePawn, passed>>
                         /\ toPos % 8 # fromPos % 8

\* C35: GenerateValidMoves returns no move twice.
C35_NoDuplicateMoves ==
    LET moves == GenerateValidMoves(arbiter)
    IN  \A i \in 1..Len(moves), j \in 1..Len(moves) :
            moves[i] = moves[j] => i = j

\* C36: a human move that cannot be decoded, or that is illegal in the
\* game as it stands, is answered by an {error} response in a step that
\* leaves the game and the engine's input as they were and takes the
\* connection back to its receive; a {fen, move} response is sent only by a
\* connection the engine was asked for after each of its accepted moves,
\* and the engine is never asked more often than moves were accepted.
C36_RejectedMoveLeavesGame ==
    [][\A c \in DOMAIN session.conns :
          LET before == session.conns[c]
              after == session'.conns[c]
              rejected == \/ before.pc = "decode" /\ DecodeFails(before.move)
                          \/ before.pc = "move" /\ ~Legal(session.game, before.move)
              answered == Len(after.responses) = Len(before.responses) + 1
          IN  /\ (rejected /\ after # before)
                    => answered /\ after.responses[Len(after.responses)].error
              /\ (answered /\ after.responses[Len(after.responses)].error)
                    => /\ rejected
                       /\ session'.game = session.game
                       /\ session'.stdin = session.stdin
                       /\ after.asked = before.asked
                       /\ after.pc = "receive"
              /\ (answered /\ ~after.responses[Len(after.responses)].error)
                    => after.asked = after.accepted
              /\ after.asked <= after.accepted]_vars

\* The only connection had a move rejected, with the game still empty
\* afterwards, then a move accepted and answered by the engine's move.
C36_RejectedThenAccepted ==
    /\ Len(session.conns) = 1
    /\ Len(session.conns[1].responses) = 2
    /\ session.conns[1].responses[1].error
    /\ ~session.conns[1].responses[2].error
    /\ session.conns[1].asked = 1
    /\ Len(session.game) = 2

\* C38: when a connection is about to send its {fen, move} response, the
\* game is the position its human move was decoded against followed by
\* that move and by the engine's answer, both applied by this connection,
\* the position sent to the engine is the first of these two, and the
\* engine's answer is the answer to that position.
C38_ExchangesNotInterleaved ==
    \A c \in DOMAIN session.conns :
        session.conns[c].pc = "send" =>
            LET conn == session.conns[c]
                afterHuman == Append(conn.validated, [move |-> conn.move, by |-> c])
            IN  /\ conn.fen = afterHuman
                /\ conn.bestMove = BestMoveOf(afterHuman)
                /\ session.game = Append(afterHuman, [move |-> conn.bestMove, by |-> c])


\* C37: HandleInput never crashes on an input line: whatever line main gives
\* it, the empty line and the lines shorter than two characters included, it
\* handles a command or ignores the line, and no engine dies of a panic.
C37_HandleInputNeverCrashes ==
    /\ handler.pc # "panicked"
    /\ handler.outcome \in {"", "uci", "isready", "position", "go", "quit", "ignored"}

====
